---------------------------- MODULE Spec2Model ----------------------------
(***************************************************************************)
(* Model of the open-home optimizer: the competition-scoring core          *)
(* (src/backend/api/clean_api.py and its copies: criteria parsing,         *)
(* similarity filtering, time-slot aggregation and ranking) and the        *)
(* authentication layer (src/backend/auth, and the in-memory register of   *)
(* src/backend/api/simple_auth_backend.py).                                *)
(*                                                                         *)
(* Python strings are sequences of one-character strings, so that          *)
(* str.split, str.replace, str.lower, int(), the regular expressions and   *)
(* the f-string formatting are computed character by character, as the     *)
(* interpreter does.  float('inf') is the extended number Inf.  A raised   *)
(* exception is a result with raised = TRUE.                               *)
(***************************************************************************)
EXTENDS Integers, Sequences, FiniteSets, TLC

VARIABLES
    fn,                   \* the function the current call runs
    pc,                   \* "call" before it runs, "return" or "raise" after
    criteria_str,         \* argument of parse_criteria_value
    similar_criteria,     \* argument of filter_similar_properties
    inspections,          \* the record list handed to filter / analyze
    time_filter,          \* argument of analyze_competition
    has_args,             \* get_inspections: address and date both given
    parsed,               \* what parse_criteria_value returned
    filtered_inspections, \* what filter_similar_properties returned
    competition_analysis, \* what analyze_competition returned
    response,             \* what get_inspections or an auth route returned
    app,                  \* which Flask application serves the requests
    now,                  \* datetime.utcnow(), in seconds
    users,                \* the rows of table users, in id order
    user_sessions,        \* the rows of table user_sessions, in id order
    issued,               \* the tokens responses have handed to clients
    request,              \* what the last auth request carried
    handler_ran,          \* whether the last request reached its route body
    DEMO_USERS,           \* simple_auth_backend: the user dict
    ACTIVE_TOKENS,        \* simple_auth_backend: the token set
    logged_out,           \* the tokens a logout has answered 200 for
    streak,               \* per user, the wrong-password logins in a row
    property_queries,     \* the user ids the last request queried data of
    threads,              \* the requests in flight: inputs, position, answer
    frames                \* the local variables of the calls in flight

\* what the scoring core reads and writes
coreVars == <<criteria_str, similar_criteria, inspections, time_filter,
              has_args, parsed, filtered_inspections, competition_analysis>>

\* what the authentication layer reads and writes
authVars == <<app, now, users, user_sessions, issued, request, handler_ran,
              DEMO_USERS, ACTIVE_TOKENS, logged_out, streak,
              property_queries>>

\* what requests served side by side read and write
threadVars == <<threads, frames>>

vars == <<fn, pc, criteria_str, similar_criteria, inspections, time_filter,
          has_args, parsed, filtered_inspections, competition_analysis,
          response, app, now, users, user_sessions, issued, request,
          handler_ran, DEMO_USERS, ACTIVE_TOKENS, logged_out, streak,
          property_queries, threads, frames>>

-----------------------------------------------------------------------------
(* Bounds of the model *)

\* longest criteria string drawn for parse_criteria_value
MaxSpecLen == 4
\* longest record list drawn from the mixed pools
MaxRecords == 3
\* longest record list drawn from the two-record crowd pool
MaxCrowd == 11
\* most records the mock generator draws here (random.randint(12, 25))
MaxMock == 12
\* most rows of user_sessions
MaxSessions == 1
\* most steps of the clock
MaxTicks == 1
\* most requests served side by side
MaxRequests == 2

\* the password reset tokens asked for
MaxResets == 1
\* longest record list handed to the filter of integrated_api.py
MaxScraped == 1

-----------------------------------------------------------------------------
(* Python built-ins *)

Digits == <<"0", "1", "2", "3", "4", "5", "6", "7", "8", "9">>

IsDigit(c) == \E i \in 1..10 : Digits[i] = c

DigitVal(c) == (CHOOSE i \in 1..10 : Digits[i] = c) - 1

\* x in s, for a one-character x
Contains(s, c) == \E i \in 1..Len(s) : s[i] = c

\* s.replace(c, '')
Remove(s, c) == SelectSeq(s, LAMBDA x : x # c)

\* s.split(sep), for a one-character sep: always at least one part
RECURSIVE Split(_, _)
Split(s, sep) ==
    IF ~Contains(s, sep) THEN <<s>>
    ELSE LET i == CHOOSE k \in 1..Len(s) :
                      s[k] = sep /\ \A j \in 1..(k - 1) : s[j] # sep
         IN  <<SubSeq(s, 1, i - 1)>> \o Split(SubSeq(s, i + 1, Len(s)), sep)

\* the whitespace the strings drawn here can hold
Whitespace == {" ", "\t", "\n"}

\* s.strip()
RECURSIVE Strip(_)
Strip(s) ==
    IF s = <<>> THEN s
    ELSE IF Head(s) \in Whitespace THEN Strip(Tail(s))
    ELSE IF s[Len(s)] \in Whitespace THEN Strip(SubSeq(s, 1, Len(s) - 1))
    ELSE s

RECURSIVE DecVal(_)
DecVal(ds) ==
    IF ds = <<>> THEN 0
    ELSE 10 * DecVal(SubSeq(ds, 1, Len(ds) - 1)) + DigitVal(ds[Len(ds)])

\* a raised exception, and a normal return of v
ValueError == [raised |-> TRUE, exc |-> "ValueError", value |-> <<>>]

KeyError == [raised |-> TRUE, exc |-> "KeyError", value |-> <<>>]

Returns(v) == [raised |-> FALSE, exc |-> "", value |-> v]

\* int(s): blanks stripped, an optional sign, then one or more digits;
\* anything else raises ValueError (the strings drawn here hold no
\* underscore and no non-ASCII digit, which int() also reads)
PyInt(s) ==
    LET t == Strip(s)
        signed == t # <<>> /\ Head(t) \in {"+", "-"}
        body == IF signed THEN Tail(t) ELSE t
    IN  IF body = <<>> \/ \E i \in 1..Len(body) : ~IsDigit(body[i])
        THEN ValueError
        ELSE Returns(IF signed /\ Head(t) = "-" THEN 0 - DecVal(body)
                     ELSE DecVal(body))

\* str(n) for n >= 0
RECURSIVE DecStr(_)
DecStr(n) ==
    IF n < 10 THEN <<Digits[n + 1]>>
    ELSE DecStr(n \div 10) \o <<Digits[(n % 10) + 1]>>

\* f"{n:02d}": the sign, then the digits zero-padded to a total width of 2
Fmt02d(n) ==
    IF n < 0 THEN <<"-">> \o DecStr(0 - n)
    ELSE IF n < 10 THEN <<"0">> \o DecStr(n)
    ELSE DecStr(n)

\* float('inf') and the finite numbers it is compared with
Inf == [inf |-> TRUE, n |-> 0]

Fin(n) == [inf |-> FALSE, n |-> n]

\* x <= e, for an integer x and an extended number e
Leq(x, e) == e.inf \/ x <= e.n

\* d.get(k, default)
Get(d, k, default) == IF k \in DOMAIN d THEN d[k] ELSE default

-----------------------------------------------------------------------------
(* parse_criteria_value *)

\* a plausible slip: an exact value is returned as an open-ended range
parse_criteria_value_open(s) ==
    IF Contains(s, "+")
    THEN LET n == PyInt(Remove(s, "+"))
         IN  IF n.raised THEN ValueError ELSE Returns(<<n.value, Inf>>)
    ELSE IF Contains(s, "-")
    THEN LET parts == Split(s, "-")
             a == PyInt(parts[1])
             b == PyInt(parts[2])
         IN  IF a.raised \/ b.raised THEN ValueError
             ELSE Returns(<<a.value, Fin(b.value)>>)
    ELSE LET n == PyInt(s)
         IN  IF n.raised THEN ValueError
             ELSE Returns(<<n.value, Inf>>)

\* the pair (min, max), max an extended number; ValueError when an int() fails
parse_criteria_value(s) ==
    IF Contains(s, "+")
    THEN LET n == PyInt(Remove(s, "+"))
         IN  IF n.raised THEN ValueError ELSE Returns(<<n.value, Inf>>)
    ELSE IF Contains(s, "-")
    THEN LET parts == Split(s, "-")
             a == PyInt(parts[1])
             b == PyInt(parts[2])
         IN  IF a.raised \/ b.raised THEN ValueError
             ELSE Returns(<<a.value, Fin(b.value)>>)
    ELSE LET n == PyInt(s)
         IN  IF n.raised THEN ValueError
             ELSE Returns(<<n.value, Fin(n.value)>>)

-----------------------------------------------------------------------------
(* filter_similar_properties *)

\* a plausible slip: a record that lacks a value matches nothing
Matches_requiring(inspection, bed, bath, car) ==
    /\ "property_details" \in DOMAIN inspection
    /\ {"bedrooms", "bathrooms", "car_spots"}
           \subseteq DOMAIN inspection.property_details
    /\ bed[1] <= inspection.property_details.bedrooms
    /\ Leq(inspection.property_details.bedrooms, bed[2])
    /\ bath[1] <= inspection.property_details.bathrooms
    /\ Leq(inspection.property_details.bathrooms, bath[2])
    /\ car[1] <= inspection.property_details.car_spots
    /\ Leq(inspection.property_details.car_spots, car[2])

\* whether the loop body appends the inspection: absent details or values
\* are read as bedrooms 3, bathrooms 2, car_spots 1
Matches(inspection, bed, bath, car) ==
    LET property_details == Get(inspection, "property_details", <<>>)
        bedrooms == Get(property_details, "bedrooms", 3)
        bathrooms == Get(property_details, "bathrooms", 2)
        car_spots == Get(property_details, "car_spots", 1)
    IN  /\ bed[1] <= bedrooms /\ Leq(bedrooms, bed[2])
        /\ bath[1] <= bathrooms /\ Leq(bathrooms, bath[2])
        /\ car[1] <= car_spots /\ Leq(car_spots, car[2])

\* a plausible slip: the upper end of a range is exclusive
filter_similar_properties_exclusive(records, criteria) ==
    LET bed == parse_criteria_value(criteria.bedrooms)
        bath == parse_criteria_value(criteria.bathrooms)
        car == parse_criteria_value(criteria.car_spots)
    IN  IF bed.raised \/ bath.raised \/ car.raised THEN ValueError
        ELSE Returns(SelectSeq(records, LAMBDA r :
                 /\ Matches(r, bed.value, bath.value, car.value)
                 /\ Get(Get(r, "property_details", <<>>), "bedrooms", 3)
                        # bed.value[2].n))

\* a plausible slip: the loop starts at the second record
filter_similar_properties_skipping(records, criteria) ==
    LET bed == parse_criteria_value(criteria.bedrooms)
        bath == parse_criteria_value(criteria.bathrooms)
        car == parse_criteria_value(criteria.car_spots)
    IN  IF bed.raised \/ bath.raised \/ car.raised THEN ValueError
        ELSE Returns(SelectSeq(IF records = <<>> THEN records ELSE Tail(records),
                 LAMBDA r : Matches(r, bed.value, bath.value, car.value)))

\* a plausible slip: each match is inserted at the front of the result
filter_similar_properties_prepending(records, criteria) ==
    LET bed == parse_criteria_value(criteria.bedrooms)
        bath == parse_criteria_value(criteria.bathrooms)
        car == parse_criteria_value(criteria.car_spots)
        kept == SelectSeq(records,
                    LAMBDA r : Matches(r, bed.value, bath.value, car.value))
    IN  IF bed.raised \/ bath.raised \/ car.raised THEN ValueError
        ELSE Returns([i \in 1..Len(kept) |-> kept[Len(kept) + 1 - i]])

\* a plausible slip: the criteria are parsed inside the loop, so that an
\* empty list is returned whatever the criteria are
filter_similar_properties_lazy(records, criteria) ==
    LET bed == parse_criteria_value(criteria.bedrooms)
        bath == parse_criteria_value(criteria.bathrooms)
        car == parse_criteria_value(criteria.car_spots)
    IN  IF records = <<>> THEN Returns(<<>>)
        ELSE IF bed.raised \/ bath.raised \/ car.raised THEN ValueError
        ELSE Returns(SelectSeq(records,
                 LAMBDA r : Matches(r, bed.value, bath.value, car.value)))

\* the three criteria are parsed first (a ValueError leaves the function),
\* then the matching inspections are appended in input order
filter_similar_properties(records, criteria) ==
    LET bed == parse_criteria_value(criteria.bedrooms)
        bath == parse_criteria_value(criteria.bathrooms)
        car == parse_criteria_value(criteria.car_spots)
    IN  IF bed.raised \/ bath.raised \/ car.raised THEN ValueError
        ELSE Returns(SelectSeq(records,
                 LAMBDA r : Matches(r, bed.value, bath.value, car.value)))

-----------------------------------------------------------------------------
(* filter_similar_properties of integrated_api.py *)

\* what the three random.randint calls of one loop turn can return
SimulatedFeatures ==
    [bedrooms : 1..6, bathrooms : 1..4, car_spots : 0..4]

\* one turn of the loop with the features drawn: nothing is appended, or a
\* copy of the inspection with the features as its property_details
SimulatedTurn(inspection, drawn, bed, bath, car) ==
    IF /\ bed[1] <= drawn.bedrooms /\ Leq(drawn.bedrooms, bed[2])
       /\ bath[1] <= drawn.bathrooms /\ Leq(drawn.bathrooms, bath[2])
       /\ car[1] <= drawn.car_spots /\ Leq(drawn.car_spots, car[2])
    THEN << [k \in DOMAIN inspection \cup {"property_details"} |->
                IF k = "property_details" THEN drawn ELSE inspection[k]] >>
    ELSE <<>>

\* the lists the loop can build, one draw of features for each inspection
RECURSIVE SimulatedLoop(_, _, _, _)
SimulatedLoop(records, bed, bath, car) ==
    IF records = <<>> THEN {<<>>}
    ELSE {turn \o rest :
              turn \in {SimulatedTurn(Head(records), drawn, bed, bath, car) :
                            drawn \in SimulatedFeatures},
              rest \in SimulatedLoop(Tail(records), bed, bath, car)}

\* what a call can come to: ValueError for criteria that do not parse,
\* else one of the lists of the loop
integrated_filter_similar_properties(records, criteria) ==
    LET bed == parse_criteria_value(criteria.bedrooms)
        bath == parse_criteria_value(criteria.bathrooms)
        car == parse_criteria_value(criteria.car_spots)
    IN  IF bed.raised \/ bath.raised \/ car.raised THEN {ValueError}
        ELSE {Returns(kept) :
                  kept \in SimulatedLoop(records, bed.value, bath.value,
                                         car.value)}

-----------------------------------------------------------------------------
(* analyze_competition *)

DefaultStart == <<"0", "9", ":", "0", "0">>

DefaultEnd == <<"1", "6", ":", "0", "0">>

\* int(time_filter.get(key, default).split(':')[0])
WindowHour(filter, key, default) ==
    PyInt(Split(Get(filter, key, default), ":")[1])

\* f"{hour:02d}:{minute:02d}"
TimeKey(hour, minute) == Fmt02d(hour) \o <<":">> \o Fmt02d(minute)

EmptySlot(time_key) ==
    [time |-> time_key, count |-> 0, competition |-> "low",
     properties |-> <<>>]

\* a plausible slip: the last hour gets its :30 slot too
HourSlots_full(hour, end_hour) ==
    <<EmptySlot(TimeKey(hour, 0)), EmptySlot(TimeKey(hour, 30))>>

\* a plausible slip: the inner loop runs over [30, 0]
HourSlots_halves_first(hour, end_hour) ==
    IF hour = end_hour
    THEN <<EmptySlot(TimeKey(hour, 0))>>
    ELSE <<EmptySlot(TimeKey(hour, 30)), EmptySlot(TimeKey(hour, 0))>>

\* the inner loop over [0, 30], left before :30 when the hour is end_hour
HourSlots(hour, end_hour) ==
    IF hour = end_hour
    THEN <<EmptySlot(TimeKey(hour, 0))>>
    ELSE <<EmptySlot(TimeKey(hour, 0)), EmptySlot(TimeKey(hour, 30))>>

\* the outer loop over range(start_hour, end_hour + 1).  time_slots is a
\* dict; its insertion order is the order of this sequence
RECURSIVE InitialSlots(_, _)
InitialSlots(hour, end_hour) ==
    IF hour > end_hour THEN <<>>
    ELSE HourSlots(hour, end_hour) \o InitialSlots(hour + 1, end_hour)

\* a plausible slip: the minute is rounded to the nearest half hour
RoundedMinute_nearest(minute) == IF minute < 15 THEN 0 ELSE 30

RoundedMinute(minute) == IF minute < 30 THEN 0 ELSE 30

\* slot_key of an inspection; the unpacking of
\* map(int, start_time.split(':')) raises ValueError unless it yields
\* exactly two integers
SlotKey(inspection) ==
    IF "start_time" \notin DOMAIN inspection THEN KeyError
    ELSE LET parts == Split(inspection.start_time, ":")
         IN  IF Len(parts) # 2 THEN ValueError
             ELSE LET hour == PyInt(parts[1])
                      minute == PyInt(parts[2])
                  IN  IF hour.raised \/ minute.raised THEN ValueError
                      ELSE Returns(TimeKey(hour.value,
                                           RoundedMinute(minute.value)))

\* slot_key in time_slots
HasSlot(slots, slot_key) == \E i \in 1..Len(slots) : slots[i].time = slot_key

\* a plausible slip: the count goes up and the record is not appended
AddToSlot_uncollected(slots, slot_key, inspection) ==
    [i \in 1..Len(slots) |->
        IF slots[i].time = slot_key
        THEN [slots[i] EXCEPT !.count = @ + 1]
        ELSE slots[i]]

\* time_slots[slot_key]['count'] += 1 and the append to its properties
AddToSlot(slots, slot_key, inspection) ==
    [i \in 1..Len(slots) |->
        IF slots[i].time = slot_key
        THEN [slots[i] EXCEPT !.count = @ + 1,
                              !.properties = Append(@, inspection)]
        ELSE slots[i]]

\* a plausible slip: the slot is looked up without the membership test
CountOne_unguarded(slots, inspection) ==
    LET key == SlotKey(inspection)
    IN  IF key.raised THEN key
        ELSE IF HasSlot(slots, key.value)
        THEN Returns(AddToSlot(slots, key.value, inspection))
        ELSE KeyError

\* a plausible slip: the record is added to its slot twice
CountOne_miscounting(slots, inspection) ==
    LET key == SlotKey(inspection)
    IN  IF key.raised THEN key
        ELSE IF HasSlot(slots, key.value)
        THEN Returns(AddToSlot(AddToSlot(slots, key.value, inspection),
                               key.value, inspection))
        ELSE Returns(slots)

\* one turn of the counting loop
CountOne(slots, inspection) ==
    LET key == SlotKey(inspection)
    IN  IF key.raised THEN key
        ELSE IF HasSlot(slots, key.value)
        THEN Returns(AddToSlot(slots, key.value, inspection))
        ELSE Returns(slots)

\* the counting loop over the inspections, left at the first exception
RECURSIVE CountInspections(_, _)
CountInspections(slots, records) ==
    IF records = <<>> THEN Returns(slots)
    ELSE LET counted == CountOne(slots, Head(records))
         IN  IF counted.raised THEN counted
             ELSE CountInspections(counted.value, Tail(records))

\* a plausible slip: the thresholds are exclusive
CompetitionLevel_exclusive(count) ==
    IF count < 2 THEN "low"
    ELSE IF count < 5 THEN "medium"
    ELSE IF count < 10 THEN "high"
    ELSE "very-high"

\* the classification loop's branches
CompetitionLevel(count) ==
    IF count <= 2 THEN "low"
    ELSE IF count <= 5 THEN "medium"
    ELSE IF count <= 10 THEN "high"
    ELSE "very-high"

analyze_competition(records, filter) ==
    LET start_hour == WindowHour(filter, "start", DefaultStart)
        end_hour == WindowHour(filter, "end", DefaultEnd)
    IN  IF start_hour.raised \/ end_hour.raised THEN ValueError
        ELSE LET counted ==
                     CountInspections(
                         InitialSlots(start_hour.value, end_hour.value),
                         records)
             IN  IF counted.raised THEN counted
                 ELSE Returns([i \in 1..Len(counted.value) |->
                          [counted.value[i] EXCEPT
                              !.competition =
                                  CompetitionLevel(counted.value[i].count)]])

-----------------------------------------------------------------------------
(* get_inspections *)

\* a plausible slip: a slot goes before the slots of equal count
InsertByCount_unstable(sorted, slot) ==
    LET k == Cardinality({i \in 1..Len(sorted) :
                              sorted[i].count < slot.count})
    IN  SubSeq(sorted, 1, k) \o <<slot>> \o SubSeq(sorted, k + 1, Len(sorted))

\* a slot put into a list sorted by count, behind the slots of equal count
InsertByCount(sorted, slot) ==
    LET k == Cardinality({i \in 1..Len(sorted) :
                              sorted[i].count <= slot.count})
    IN  SubSeq(sorted, 1, k) \o <<slot>> \o SubSeq(sorted, k + 1, Len(sorted))

\* sorted(slots, key=lambda x: x['count']): Python's sort is stable and
\* compares the keys only
RECURSIVE SortedByCount(_)
SortedByCount(slots) ==
    IF slots = <<>> THEN <<>>
    ELSE InsertByCount(SortedByCount(SubSeq(slots, 1, Len(slots) - 1)),
                       slots[Len(slots)])

\* seq[:n]
Take(seq, n) == SubSeq(seq, 1, IF Len(seq) < n THEN Len(seq) ELSE n)

\* the response built from the analysis (or the 500 of its exception)
Respond(mock, filtered, analysis) ==
    IF analysis.raised
    THEN [status |-> 500, error |-> analysis.exc]
    ELSE [status |-> 200,
          inspections |-> mock,
          filtered_inspections |-> filtered.value,
          competition_analysis |-> analysis.value,
          recommendations |-> Take(SortedByCount(analysis.value), 5),
          total_inspections |-> Len(mock),
          similar_inspections |-> Len(filtered.value)]

\* the try block after the filter call: the analysis of the filtered list
\* (or the 500 of the filter's exception)
Analyse(filter, mock, filtered) ==
    IF filtered.raised
    THEN [status |-> 500, error |-> filtered.exc]
    ELSE Respond(mock, filtered, analyze_competition(filtered.value, filter))

\* the response and its status; mock is what generate_mock_data drew.  Every
\* exception of the try block becomes a 500 response
get_inspections(args_given, criteria, filter, mock) ==
    IF ~args_given
    THEN [status |-> 400, error |-> "Missing address or date"]
    ELSE Analyse(filter, mock, filter_similar_properties(mock, criteria))

-----------------------------------------------------------------------------
(* Strings, hashes and tokens of the authentication layer *)

LowerLetters ==
    << "a", "b", "c", "d", "e", "f", "g", "h", "i", "j", "k", "l", "m", "n",
    "o", "p", "q", "r", "s", "t", "u", "v", "w", "x", "y", "z" >>

UpperLetters ==
    << "A", "B", "C", "D", "E", "F", "G", "H", "I", "J", "K", "L", "M", "N",
    "O", "P", "Q", "R", "S", "T", "U", "V", "W", "X", "Y", "Z" >>

IsLowerLetter(c) == \E i \in 1..26 : LowerLetters[i] = c

IsUpperLetter(c) == \E i \in 1..26 : UpperLetters[i] = c

IsLetter(c) == IsLowerLetter(c) \/ IsUpperLetter(c)

\* s.lower(): the upper-case letters mapped, every other character kept
Lower(s) ==
    [i \in 1..Len(s) |->
        IF IsUpperLetter(s[i])
        THEN LowerLetters[CHOOSE k \in 1..26 : UpperLetters[k] = s[i]]
        ELSE s[i]]

\* re.match(r'^[a-zA-Z0-9._%+-]+@[a-zA-Z0-9.-]+\.[a-zA-Z]{2,}$', email):
\* '$' also matches before a newline that ends the string
validate_email(email) ==
    LET last == IF email # <<>> /\ email[Len(email)] = "\n"
                THEN Len(email) - 1 ELSE Len(email)
    IN  \E at \in 2..last : \E dot \in (at + 2)..(last - 2) :
            /\ email[at] = "@"
            /\ email[dot] = "."
            /\ \A i \in 1..(at - 1) :
                   \/ IsLetter(email[i]) \/ IsDigit(email[i])
                   \/ email[i] \in {".", "_", "%", "+", "-"}
            /\ \A i \in (at + 1)..(dot - 1) :
                   \/ IsLetter(email[i]) \/ IsDigit(email[i])
                   \/ email[i] \in {".", "-"}
            /\ \A i \in (dot + 1)..last : IsLetter(email[i])

\* the characters of [!@#$%^&*(),.?":{}|<>]
SpecialCharacters ==
    {"!", "@", "#", "$", "%", "^", "&", "*", "(", ")", ",", ".", "?", "\"",
     ":", "{", "}", "|", "<", ">"}

\* at least 8 characters, with an upper-case letter, a lower-case letter,
\* a digit and a special character
validate_password_strength(password) ==
    /\ Len(password) >= 8
    /\ \E i \in 1..Len(password) : IsUpperLetter(password[i])
    /\ \E i \in 1..Len(password) : IsLowerLetter(password[i])
    /\ \E i \in 1..Len(password) : IsDigit(password[i])
    /\ \E i \in 1..Len(password) : password[i] \in SpecialCharacters

\* the position of the last '@' of value (value.rsplit("@", 1)), 0 if none
LastAt(value) ==
    IF ~Contains(value, "@") THEN 0
    ELSE CHOOSE k \in 1..Len(value) :
             value[k] = "@" /\ \A j \in (k + 1)..Len(value) : value[j] # "@"

\* fields.Email of RegisterSchema and LoginSchema: a dot-atom before the
\* last '@' (no backquote is drawn here), after it dot-separated labels of
\* letters, digits and inner hyphens with a last label of two or more;
\* nothing may follow (\Z)
EmailField(value) ==
    /\ LastAt(value) > 1
    /\ LET user_part == Split(SubSeq(value, 1, LastAt(value) - 1), ".")
           domain_part ==
               Split(SubSeq(value, LastAt(value) + 1, Len(value)), ".")
       IN  /\ \A i \in 1..Len(user_part) :
                  /\ user_part[i] # <<>>
                  /\ \A j \in 1..Len(user_part[i]) :
                         \/ IsLetter(user_part[i][j])
                         \/ IsDigit(user_part[i][j])
                         \/ user_part[i][j] \in
                                {"-", "!", "#", "$", "%", "&", "'", "*", "+",
                                 "/", "=", "?", "^", "{", "}", "|", "~", "_"}
           /\ Len(domain_part) >= 2
           /\ Len(domain_part[Len(domain_part)]) >= 2
           /\ \A i \in 1..Len(domain_part) :
                  /\ domain_part[i] # <<>>
                  /\ domain_part[i][1] # "-"
                  /\ domain_part[i][Len(domain_part[i])] # "-"
                  /\ \A j \in 1..Len(domain_part[i]) :
                         \/ IsLetter(domain_part[i][j])
                         \/ IsDigit(domain_part[i][j])
                         \/ domain_part[i][j] = "-"

\* bcrypt.hashpw(password, salt), and bcrypt.checkpw against it
Hashpw(password) == [bcrypt |-> password]

check_password(user, password) ==
    password # <<>> /\ user.password_hash = Hashpw(password)

\* None, for a time
NoTime == 0 - 1

\* timedelta(hours=24), of an access token and of a session, in seconds
AccessSeconds == 86400

\* timedelta(days=30), of a refresh token, in seconds
RefreshSeconds == 2592000

\* timedelta(minutes=30), of an account lock, in seconds
LockSeconds == 1800

\* the failed attempts that lock an account
MaxAttempts == 5

\* timedelta(hours=1), of a password reset token, in seconds
ResetSeconds == 3600

\* jwt.encode of the access payload: equal payloads give equal tokens
generate_jwt_token(user, t) ==
    [type |-> "access", user_id |-> user.id, email |-> user.email,
     iat |-> t, exp |-> t + AccessSeconds]

\* jwt.encode of the refresh payload
generate_refresh_token(user, t) ==
    [type |-> "refresh", user_id |-> user.id, email |-> <<>>,
     iat |-> t, exp |-> t + RefreshSeconds]

\* a string that is no token of this server, as 'invalid_token'
InvalidToken ==
    [type |-> "invalid", user_id |-> 0, email |-> <<>>, iat |-> 0, exp |-> 0]

\* no token: None or the empty string
NoToken ==
    [type |-> "", user_id |-> 0, email |-> <<>>, iat |-> 0, exp |-> 0]

\* None, and a value that is not None
None == [none |-> TRUE]

Some(v) == [none |-> FALSE, value |-> v]

\* jwt.decode: the payload, or None for a token that is not one of this
\* server or whose exp has been reached
verify_jwt_token(token, t) ==
    IF token.type \notin {"access", "refresh"} THEN None
    ELSE IF token.exp <= t THEN None
    ELSE Some(token)

-----------------------------------------------------------------------------
(* AuthService: the users and user_sessions tables and what is done to them *)

\* raise AuthenticationError(message)
AuthenticationError(message) ==
    [raised |-> TRUE, exc |-> "AuthenticationError", message |-> message]

\* what db.commit() raises for a second row with a value of a unique column
IntegrityError ==
    [raised |-> TRUE, exc |-> "IntegrityError",
     message |-> "UNIQUE constraint failed"]

\* .first(): the least of the places of the rows a query selects, 0 for
\* None
First(places) ==
    IF places = {} THEN 0
    ELSE CHOOSE i \in places : \A j \in places : i <= j

\* db.query(User).filter(User.email == email).first()
ByEmail(table, email) ==
    First({i \in 1..Len(table) : table[i].email = email})

\* db.query(User).filter(User.id == user_id).first()
ById(table, user_id) ==
    First({i \in 1..Len(table) : table[i].id = user_id})

\* db.query(UserSession).filter(UserSession.session_token == token,
\* UserSession.is_active == True).first()
ActiveSession(sessions, token) ==
    First({i \in 1..Len(sessions) :
              sessions[i].session_token = token /\ sessions[i].is_active})

\* User(email=..., password=...) once added and committed
NewUser(id, email, password) ==
    [id |-> id, email |-> email, password_hash |-> Hashpw(password),
     is_active |-> TRUE, failed_login_attempts |-> 0,
     account_locked_until |-> NoTime,
     password_reset_token |-> NoToken, password_reset_expires |-> NoTime]

\* a plausible slip: the existing user is looked up by the email as sent
register_user_as_sent(table, email, password, t) ==
    IF ~validate_email(email)
    THEN AuthenticationError("Invalid email format")
    ELSE IF ByEmail(table, email) # 0
    THEN AuthenticationError("User with this email already exists")
    ELSE IF ~validate_password_strength(password)
    THEN AuthenticationError("Password must be at least 8 characters long")
    ELSE IF ByEmail(table, Strip(Lower(email))) # 0
    THEN IntegrityError
    ELSE [raised |-> FALSE, exc |-> "", message |-> "",
          users |-> Append(table, NewUser(Len(table) + 1,
                                          Strip(Lower(email)), password)),
          token |-> generate_jwt_token(
                        NewUser(Len(table) + 1, Strip(Lower(email)),
                                password), t)]

\* register_user: the checks in their order, then the row with the email
\* lower-cased and stripped; users.email is unique, so the commit of a
\* second row with a stored email raises
register_user(table, email, password, t) ==
    IF ~validate_email(email)
    THEN AuthenticationError("Invalid email format")
    ELSE IF ByEmail(table, Lower(email)) # 0
    THEN AuthenticationError("User with this email already exists")
    ELSE IF ~validate_password_strength(password)
    THEN AuthenticationError("Password must be at least 8 characters long")
    ELSE IF ByEmail(table, Strip(Lower(email))) # 0
    THEN IntegrityError
    ELSE [raised |-> FALSE, exc |-> "", message |-> "",
          users |-> Append(table, NewUser(Len(table) + 1,
                                          Strip(Lower(email)), password)),
          token |-> generate_jwt_token(
                        NewUser(Len(table) + 1, Strip(Lower(email)),
                                password), t)]

\* if self.account_locked_until: return utcnow() < self.account_locked_until
is_account_locked(user, t) ==
    user.account_locked_until # NoTime /\ t < user.account_locked_until

\* a plausible slip: the lock keeps the counter
lock_account_counter_kept(user, t) ==
    [user EXCEPT !.account_locked_until = t + LockSeconds]

\* lock_account: locked for the default duration, the counter reset
lock_account(user, t) ==
    [user EXCEPT !.account_locked_until = t + LockSeconds,
                 !.failed_login_attempts = 0]

\* unlock_account: no lock, the counter reset
unlock_account(user) ==
    [user EXCEPT !.account_locked_until = NoTime,
                 !.failed_login_attempts = 0]

\* a plausible slip: the account is locked when the counter has passed
\* MaxAttempts
record_failed_login_one_late(user, t) ==
    IF user.failed_login_attempts + 1 > MaxAttempts
    THEN lock_account([user EXCEPT !.failed_login_attempts = @ + 1], t)
    ELSE [user EXCEPT !.failed_login_attempts = @ + 1]

\* the counter goes up by one; at MaxAttempts the account is locked, which
\* resets the counter
record_failed_login(user, t) ==
    IF user.failed_login_attempts + 1 >= MaxAttempts
    THEN lock_account([user EXCEPT !.failed_login_attempts = @ + 1], t)
    ELSE [user EXCEPT !.failed_login_attempts = @ + 1]

record_successful_login(user) ==
    [user EXCEPT !.failed_login_attempts = 0,
                 !.account_locked_until = NoTime]

\* UserSession(user_id=..., session_token=access_token, ...)
NewSession(user, t) ==
    [user_id |-> user.id,
     session_token |-> generate_jwt_token(user, t),
     refresh_token |-> generate_refresh_token(user, t),
     is_active |-> TRUE,
     expires_at |-> t + AccessSeconds]

\* authenticate_user from the successful login on: session_token and
\* refresh_token are unique, so the commit of a session whose tokens are
\* those of a stored one raises and nothing of the call is kept
LoggedIn(table, sessions, i, t) ==
    IF \E k \in 1..Len(sessions) :
           \/ sessions[k].session_token = generate_jwt_token(table[i], t)
           \/ sessions[k].refresh_token = generate_refresh_token(table[i], t)
    THEN [raised |-> TRUE, exc |-> "IntegrityError",
          message |-> "UNIQUE constraint failed",
          users |-> table, user_sessions |-> sessions]
    ELSE [raised |-> FALSE, exc |-> "", message |-> "",
          users |-> [table EXCEPT ![i] = record_successful_login(@)],
          user_sessions |-> Append(sessions, NewSession(table[i], t)),
          access_token |-> generate_jwt_token(table[i], t),
          refresh_token |-> generate_refresh_token(table[i], t)]

\* authenticate_user from the found user on
Authenticate(table, sessions, i, password, t) ==
    IF i = 0
    THEN [raised |-> TRUE, exc |-> "AuthenticationError",
          message |-> "Invalid email or password",
          users |-> table, user_sessions |-> sessions]
    ELSE IF is_account_locked(table[i], t)
    THEN [raised |-> TRUE, exc |-> "AuthenticationError",
          message |-> "Account is temporarily locked",
          users |-> table, user_sessions |-> sessions]
    ELSE IF ~table[i].is_active
    THEN [raised |-> TRUE, exc |-> "AuthenticationError",
          message |-> "Account is deactivated",
          users |-> table, user_sessions |-> sessions]
    ELSE IF ~check_password(table[i], password)
    THEN [raised |-> TRUE, exc |-> "AuthenticationError",
          message |-> "Invalid email or password",
          users |-> [table EXCEPT ![i] = record_failed_login(@, t)],
          user_sessions |-> sessions]
    ELSE LoggedIn(table, sessions, i, t)

authenticate_user(table, sessions, email, password, t) ==
    Authenticate(table, sessions,
                 ByEmail(table, Lower(email)),
                 password, t)

\* verify_token: the JWT must decode and its user_id be that of an active
\* user; the user_sessions table is not read
verify_token(table, token, t) ==
    IF verify_jwt_token(token, t).none THEN None
    ELSE IF ById(table, token.user_id) = 0
    THEN None
    ELSE IF ~table[ById(table, token.user_id)].is_active
    THEN None
    ELSE Some(table[ById(table, token.user_id)])

\* logout_user: the first active session with this session_token is made
\* inactive; False (the table as it was, success FALSE) if there is none
logout_user(sessions, token) ==
    IF ActiveSession(sessions, token) = 0
    THEN [success |-> FALSE, user_sessions |-> sessions]
    ELSE [success |-> TRUE,
          user_sessions |->
              [sessions EXCEPT
                  ![ActiveSession(sessions, token)].is_active = FALSE]]

\* a plausible slip: only the first active session of the user is made
\* inactive
logout_first_session(sessions, user_id) ==
    [k \in 1..Len(sessions) |->
        IF k = First({j \in 1..Len(sessions) :
                         sessions[j].user_id = user_id
                             /\ sessions[j].is_active})
        THEN [sessions[k] EXCEPT !.is_active = FALSE]
        ELSE sessions[k]]

\* logout_all_sessions: every active session of the user is made inactive
logout_all_sessions(sessions, user_id) ==
    [k \in 1..Len(sessions) |->
        IF sessions[k].user_id = user_id
        THEN [sessions[k] EXCEPT !.is_active = FALSE]
        ELSE sessions[k]]

\* deactivate_user: False for an unknown id; else the user is made
\* inactive and logged out of all sessions
deactivate_user(table, sessions, user_id) ==
    IF ById(table, user_id) = 0
    THEN [success |-> FALSE, users |-> table, user_sessions |-> sessions]
    ELSE [success |-> TRUE,
          users |-> [table EXCEPT
                        ![ById(table, user_id)].is_active = FALSE],
          user_sessions |-> logout_all_sessions(sessions, user_id)]

\* set_password: the hash of the new password replaces the stored one
\* (its callers here have validated the password, so it does not raise)
set_password(user, password) ==
    [user EXCEPT !.password_hash = Hashpw(password)]

\* what a call that raised leaves: the tables as they were
Refused(message, table, sessions) ==
    [raised |-> TRUE, exc |-> "AuthenticationError", message |-> message,
     users |-> table, user_sessions |-> sessions]

\* change_password: the user must exist, the current password be the
\* stored one and the new one strong; then the password is set and the
\* user logged out of all sessions
change_password(table, sessions, user_id, current_password, new_password) ==
    IF ById(table, user_id) = 0
    THEN Refused("User not found", table, sessions)
    ELSE IF ~check_password(table[ById(table, user_id)], current_password)
    THEN Refused("Current password is incorrect", table, sessions)
    ELSE IF ~validate_password_strength(new_password)
    THEN Refused("New password must be at least 8 characters long",
                 table, sessions)
    ELSE [raised |-> FALSE, exc |-> "", message |-> "",
          users |-> [table EXCEPT
                        ![ById(table, user_id)] =
                            set_password(@, new_password)],
          user_sessions |-> logout_all_sessions(sessions, user_id)]

\* the n-th string secrets.token_urlsafe(32) returns: no two are equal
ResetToken(n) ==
    [type |-> "reset", user_id |-> 0, email |-> <<>>, iat |-> n, exp |-> 0]

\* db.query(User).filter(User.password_reset_token == reset_token).first()
ByResetToken(table, token) ==
    First({i \in 1..Len(table) : table[i].password_reset_token = token})

\* request_password_reset: None for an unknown email; else the user gets
\* the fresh token, good for an hour
request_password_reset(table, email, fresh, t) ==
    IF ByEmail(table, Lower(email)) = 0
    THEN [token |-> None, users |-> table]
    ELSE [token |-> Some(fresh),
          users |-> [table EXCEPT
                        ![ByEmail(table, Lower(email))] =
                            [@ EXCEPT !.password_reset_token = fresh,
                                      !.password_reset_expires =
                                          t + ResetSeconds]]]

\* reset_password: the token must be that of a user, not be expired and
\* the new password be strong; then the password is set, the token
\* cleared, the account unlocked and the user logged out of all sessions
reset_password(table, sessions, token, new_password, t) ==
    IF ByResetToken(table, token) = 0
    THEN Refused("Invalid reset token", table, sessions)
    ELSE IF \/ table[ByResetToken(table, token)].password_reset_expires
                   = NoTime
            \/ t > table[ByResetToken(table, token)].password_reset_expires
    THEN Refused("Reset token has expired", table, sessions)
    ELSE IF ~validate_password_strength(new_password)
    THEN Refused("Password must be at least 8 characters long",
                 table, sessions)
    ELSE [raised |-> FALSE, exc |-> "", message |-> "",
          users |-> [table EXCEPT
                        ![ByResetToken(table, token)] =
                            unlock_account(
                                [set_password(@, new_password) EXCEPT
                                    !.password_reset_token = NoToken,
                                    !.password_reset_expires = NoTime])],
          user_sessions |->
              logout_all_sessions(
                  sessions, table[ByResetToken(table, token)].id)]

\* LOCKOUT_SETTINGS['max_attempts']
max_attempts == 5

\* LOCKOUT_SETTINGS['lockout_duration_minutes']
lockout_duration_minutes == 30

\* the wrong-password logins in a row after a call of authenticate_user
\* that returned r: one more (counted anew after max_attempts of them) for
\* a wrong password given for a stored, active, unlocked user, none after a
\* login, as before after any other call
StreakAfter(counts, table, email, password, t, r) ==
    IF ~r.raised
    THEN [counts EXCEPT ![ByEmail(table, Lower(email))] = 0]
    ELSE IF ByEmail(table, Lower(email)) = 0 THEN counts
    ELSE IF is_account_locked(table[ByEmail(table, Lower(email))], t)
    THEN counts
    ELSE IF ~table[ByEmail(table, Lower(email))].is_active THEN counts
    ELSE IF check_password(table[ByEmail(table, Lower(email))], password)
    THEN counts
    ELSE [counts EXCEPT
             ![ByEmail(table, Lower(email))] = (@ % max_attempts) + 1]

\* UserSession.is_expired: utcnow() > expires_at
is_expired(session, t) == t > session.expires_at

\* db.query(UserSession).filter(UserSession.refresh_token == refresh_token,
\* UserSession.is_active == True).first()
ActiveRefreshSession(sessions, token) ==
    First({i \in 1..Len(sessions) :
              sessions[i].refresh_token = token /\ sessions[i].is_active})

\* a plausible slip: the session is looked up whether active or not
Refreshable_any(sessions, token, t) ==
    First({i \in 1..Len(sessions) : sessions[i].refresh_token = token})

\* the session refresh_access_token goes on with: the first active one
\* with this refresh token if it is not expired, else 0 for None
Refreshable(sessions, token, t) ==
    IF ActiveRefreshSession(sessions, token) = 0 THEN 0
    ELSE IF is_expired(sessions[ActiveRefreshSession(sessions, token)], t)
    THEN 0
    ELSE ActiveRefreshSession(sessions, token)

\* refresh_access_token from the found session on: the session gets the
\* new access token and 24 more hours; session_token is unique, so the
\* commit raises when another session holds the new token
Refreshed(table, sessions, k, t) ==
    IF \E j \in 1..Len(sessions) :
           /\ j # k
           /\ sessions[j].session_token =
                  generate_jwt_token(table[ById(table, sessions[k].user_id)],
                                     t)
    THEN [raised |-> TRUE, exc |-> "IntegrityError", token |-> None,
          user_sessions |-> sessions]
    ELSE [raised |-> FALSE, exc |-> "",
          token |-> Some(generate_jwt_token(
                        table[ById(table, sessions[k].user_id)], t)),
          user_sessions |->
              [sessions EXCEPT
                  ![k].session_token =
                      generate_jwt_token(
                          table[ById(table, sessions[k].user_id)], t),
                  ![k].expires_at = t + AccessSeconds]]

\* refresh_access_token: None unless the token decodes with type
\* 'refresh', its user is stored and active, and an active session that
\* is not expired has it as refresh_token
refresh_access_token(table, sessions, token, t) ==
    IF verify_jwt_token(token, t).none \/ token.type # "refresh"
    THEN [raised |-> FALSE, exc |-> "", token |-> None,
          user_sessions |-> sessions]
    ELSE IF ById(table, token.user_id) = 0
    THEN [raised |-> FALSE, exc |-> "", token |-> None,
          user_sessions |-> sessions]
    ELSE IF ~table[ById(table, token.user_id)].is_active
    THEN [raised |-> FALSE, exc |-> "", token |-> None,
          user_sessions |-> sessions]
    ELSE IF Refreshable(sessions, token, t) = 0
    THEN [raised |-> FALSE, exc |-> "", token |-> None,
          user_sessions |-> sessions]
    ELSE Refreshed(table, sessions, Refreshable(sessions, token, t), t)

-----------------------------------------------------------------------------
(* The routes of auth_routes.py and the token_required decorator *)

\* what a failed route answers: the status and the 'error' of the body
Error(status, error) == [status |-> status, error |-> error]

\* register after the schema: AuthenticationError becomes 400, any other
\* exception 500, a new user 201 with its access token
Registered(table, r) ==
    IF r.raised
    THEN [response |->
              IF r.exc = "AuthenticationError" THEN Error(400, r.message)
              ELSE Error(500, "Registration failed"),
          users |-> table,
          tokens |-> {}]
    ELSE [response |->
              [status |-> 201, message |-> "User registered successfully",
               access_token |-> r.token],
          users |-> r.users,
          tokens |-> {r.token}]

\* POST /api/auth/register: RegisterSchema (an email, a password of 8 or
\* more characters), then register_user
register(table, email, password, t) ==
    IF ~EmailField(email) \/ Len(password) < 8
    THEN [response |-> Error(400, "Validation failed"),
          users |-> table,
          tokens |-> {}]
    ELSE Registered(table, register_user(table, email, password, t))

\* login after the schema: AuthenticationError becomes 401, any other
\* exception 500, a login 200 with both tokens
Authenticated(r) ==
    IF r.raised
    THEN [response |->
              IF r.exc = "AuthenticationError" THEN Error(401, r.message)
              ELSE Error(500, "Login failed"),
          users |-> r.users,
          user_sessions |-> r.user_sessions,
          tokens |-> {}]
    ELSE [response |->
              [status |-> 200, message |-> "Login successful",
               access_token |-> r.access_token,
               refresh_token |-> r.refresh_token],
          users |-> r.users,
          user_sessions |-> r.user_sessions,
          tokens |-> {r.access_token, r.refresh_token}]

\* POST /api/auth/login: LoginSchema (an email, a password), then
\* authenticate_user
login(table, sessions, email, password, t) ==
    IF ~EmailField(email)
    THEN [response |-> Error(400, "Validation failed"),
          users |-> table,
          user_sessions |-> sessions,
          tokens |-> {}]
    ELSE Authenticated(
             authenticate_user(table, sessions, email, password, t))

\* the credentials of a request: the Authorization header ("absent",
\* "no space" for a value without a blank, "Bearer" with the token after
\* the blank) and the token of the query string
Credentials(header, token, query) ==
    [header |-> header, token |-> token, query |-> query]

\* the token the decorator ends up with: auth_header.split(" ")[1], or the
\* query parameter when that is empty or there is no header
TokenOf(cred) ==
    IF cred.header = "Bearer" /\ cred.token # NoToken THEN cred.token
    ELSE cred.query

\* a plausible slip: the body of optional_auth, where a request without a
\* usable token goes on as an anonymous one
token_required_optional(table, cred, t) ==
    IF cred.header = "no space"
    THEN [passed |-> FALSE,
          response |-> Error(401, "Invalid authorization header format")]
    ELSE IF TokenOf(cred) = NoToken
    THEN [passed |-> TRUE, token |-> NoToken, current_user |-> None]
    ELSE [passed |-> TRUE, token |-> TokenOf(cred),
          current_user |-> verify_token(table, TokenOf(cred), t)]

\* token_required: 401 for a header without a blank, for no token and for
\* a token verify_token returns None for; else g.current_user and g.token
\* are set and the route body runs
token_required(table, cred, t) ==
    IF cred.header = "no space"
    THEN [passed |-> FALSE,
          response |-> Error(401, "Invalid authorization header format")]
    ELSE IF TokenOf(cred) = NoToken
    THEN [passed |-> FALSE, response |-> Error(401, "Token is missing")]
    ELSE IF verify_token(table, TokenOf(cred), t).none
    THEN [passed |-> FALSE,
          response |-> Error(401, "Token is invalid or expired")]
    ELSE [passed |-> TRUE, token |-> TokenOf(cred),
          current_user |-> verify_token(table, TokenOf(cred), t)]

\* the body of logout: 200 when logout_user found the session, else 400
LoggedOut(r) ==
    [response |->
         IF r.success
         THEN [status |-> 200, message |-> "Logout successful"]
         ELSE Error(400, "Logout failed"),
     user_sessions |-> r.user_sessions,
     handler_ran |-> TRUE]

\* a route behind the decorator: its answer, or the body's
Decorated(sessions, checked, body) ==
    IF ~checked.passed
    THEN [response |-> checked.response,
          user_sessions |-> sessions,
          handler_ran |-> FALSE]
    ELSE body

\* POST /api/auth/logout
logout(table, sessions, cred, t) ==
    Decorated(sessions, token_required(table, cred, t),
              LoggedOut(logout_user(sessions, TokenOf(cred))))

\* the body of GET /api/auth/me: the user as a dict; without a current
\* user to_dict fails and the except branch answers 500
CurrentUserInfo(sessions, checked) ==
    [response |->
         IF checked.passed /\ ~checked.current_user.none
         THEN [status |-> 200, user |-> checked.current_user.value.email]
         ELSE Error(500, "Failed to get user information"),
     user_sessions |-> sessions,
     handler_ran |-> TRUE]

\* GET /api/auth/me
get_current_user_info(table, sessions, cred, t) ==
    Decorated(sessions, token_required(table, cred, t),
              CurrentUserInfo(sessions, token_required(table, cred, t)))

\* a plausible slip: the rows are read for whatever user_id the URL names
UserRows_unchecked(current_user, user_id, rows) ==
    [response |-> [status |-> 200, user_id |-> user_id],
     queried |-> {[rows |-> rows, user_id |-> user_id]}]

\* the body of the two routes under /api/users/<user_id>: 403 unless the
\* id is the current user's, else the rows of that user are queried
\* (PropertyService.get_properties_by_user,
\* AnalysisService.get_analysis_history) and answered
UserRows(current_user, user_id, rows) ==
    IF current_user.id # user_id
    THEN [response |-> Error(403, "Access denied"), queried |-> {}]
    ELSE [response |-> [status |-> 200, user_id |-> user_id],
          queried |-> {[rows |-> rows, user_id |-> user_id]}]

\* a route of auth_integration.py behind the decorator
DecoratedRows(checked, user_id, rows) ==
    IF ~checked.passed
    THEN [response |-> checked.response, queried |-> {},
          handler_ran |-> FALSE]
    ELSE [response |->
              UserRows(checked.current_user.value, user_id, rows).response,
          queried |->
              UserRows(checked.current_user.value, user_id, rows).queried,
          handler_ran |-> TRUE]

\* GET /api/users/<user_id>/properties
get_user_properties(table, cred, user_id, t) ==
    DecoratedRows(token_required(table, cred, t), user_id, "properties")

\* GET /api/users/<user_id>/analysis-history
get_analysis_history(table, cred, user_id, t) ==
    DecoratedRows(token_required(table, cred, t), user_id,
                  "analysis_history")

\* the refresh route after the call: 401 for None, 500 for an exception,
\* else 200 with the new access token
RefreshAnswered(r) ==
    [response |->
         IF r.raised THEN Error(500, "Token refresh failed")
         ELSE IF r.token.none
         THEN Error(401, "Invalid or expired refresh token")
         ELSE [status |-> 200, access_token |-> r.token.value],
     user_sessions |-> r.user_sessions,
     tokens |-> IF r.token.none THEN {} ELSE {r.token.value}]

\* POST /api/auth/refresh: 400 without a refresh_token, else
\* refresh_access_token
refresh_token(table, sessions, token, t) ==
    IF token = NoToken
    THEN [response |-> Error(400, "Refresh token is required"),
          user_sessions |-> sessions,
          tokens |-> {}]
    ELSE RefreshAnswered(refresh_access_token(table, sessions, token, t))

-----------------------------------------------------------------------------
(* simple_auth_backend.py: the in-memory register *)

DemoEmail ==
    <<"d", "e", "m", "o", "@", "r", "e", "a", "l", "e", "s", "t", "a", "t",
      "e", ".", "c", "o", "m">>

AgentEmail ==
    <<"a", "g", "e", "n", "t", "@", "r", "e", "a", "l", "e", "s", "t", "a",
      "t", "e", ".", "c", "o", "m">>

\* a user dict of DEMO_USERS
DemoUser(id, email, password) ==
    [id |-> id, email |-> email, password_hash |-> Hashpw(password)]

DemoPassword ==
    <<"D", "e", "m", "o", "P", "a", "s", "s", "1", "2", "3", "!">>

AgentPassword ==
    <<"A", "g", "e", "n", "t", "P", "a", "s", "s", "1", "2", "3", "!">>

\* DEMO_USERS as the module builds it, keyed by email
DemoUsers ==
    [email \in {DemoEmail, AgentEmail} |->
        IF email = DemoEmail THEN DemoUser(1, DemoEmail, DemoPassword)
        ELSE DemoUser(2, AgentEmail, AgentPassword)]

\* generate_token: the payload has user_id, email and exp
generate_token(user_data, t) ==
    [user_id |-> user_data.id, email |-> user_data.email,
     exp |-> t + AccessSeconds]

\* POST /api/auth/register of simple_auth_backend.py: the email is
\* lower-cased, 400 without email or password and for a stored email, else
\* the user is stored under its email with id len(DEMO_USERS) + 1 and its
\* token added to ACTIVE_TOKENS
simple_register(demo_users, active_tokens, email, password, t) ==
    IF Lower(email) = <<>> \/ password = <<>>
    THEN [response |-> Error(400, "Email and password are required"),
          DEMO_USERS |-> demo_users, ACTIVE_TOKENS |-> active_tokens]
    ELSE IF Lower(email) \in DOMAIN demo_users
    THEN [response |-> Error(400, "User already exists"),
          DEMO_USERS |-> demo_users, ACTIVE_TOKENS |-> active_tokens]
    ELSE [response |->
              [status |-> 201, message |-> "User registered successfully",
               access_token |->
                   generate_token(
                       DemoUser(Cardinality(DOMAIN demo_users) + 1,
                                Lower(email), password), t)],
          DEMO_USERS |->
              [e \in DOMAIN demo_users \cup {Lower(email)} |->
                  IF e = Lower(email)
                  THEN DemoUser(Cardinality(DOMAIN demo_users) + 1,
                                Lower(email), password)
                  ELSE demo_users[e]],
          ACTIVE_TOKENS |->
              active_tokens \cup
                  {generate_token(
                       DemoUser(Cardinality(DOMAIN demo_users) + 1,
                                Lower(email), password), t)}]

-----------------------------------------------------------------------------
(* Inputs *)

\* the characters criteria strings are drawn from
Alphabet == {"0", "1", "2", "3", "+", "-", "a"}

\* every string over Alphabet of length at most n
StringsUpTo(n) == UNION {[1..k -> Alphabet] : k \in 0..n}

\* the three-part range, longer than the strings drawn over Alphabet
SpecExamples == { <<"1", "-", "2", "-", "3">> }

NoCriteria == [bedrooms |-> <<>>, bathrooms |-> <<>>, car_spots |-> <<>>]

NoTimeFilter == [start |-> <<>>, end |-> <<>>]

NotCalled == Returns(<<>>)

NoResponse == [status |-> 0]

\* an inspection record as generate_mock_data builds it; address, date and
\* end_time are carried along and never read by the core
Inspection(t, bed, bath, car) ==
    [start_time |-> t,
     property_details |->
         [bedrooms |-> bed, bathrooms |-> bath, car_spots |-> car]]

\* every sequence over pool of length at most n
ListsUpTo(pool, n) == UNION {[1..k -> pool] : k \in 0..n}

T0905 == <<"0", "9", ":", "0", "5">>

\* records around the ends of the ranges 3-4 / 2+ / 1-2, and records that
\* lack details or one value
FilterPool ==
    { Inspection(T0905, 3, 2, 1),
      Inspection(T0905, 4, 3, 2),
      Inspection(T0905, 5, 2, 1),
      Inspection(T0905, 3, 1, 1),
      Inspection(T0905, 2, 2, 3),
      [start_time |-> T0905],
      [start_time |-> T0905,
       property_details |-> [bathrooms |-> 2, car_spots |-> 0]] }

\* the start times records are drawn with, and what each one means
TimeTable ==
    { [text |-> <<"0", "9", ":", "0", "5">>, hour |-> 9, minute |-> 5],
      [text |-> <<"0", "9", ":", "2", "9">>, hour |-> 9, minute |-> 29],
      [text |-> <<"0", "9", ":", "3", "0">>, hour |-> 9, minute |-> 30],
      [text |-> <<"9", ":", "5", "9">>, hour |-> 9, minute |-> 59],
      [text |-> <<"1", "0", ":", "0", "0">>, hour |-> 10, minute |-> 0],
      [text |-> <<"0", "8", ":", "4", "5">>, hour |-> 8, minute |-> 45] }

\* a start time that is not HH:MM
T0930NoColon == <<"0", "9", "3", "0">>

AnalyzePool ==
    {Inspection(e.text, 3, 2, 1) : e \in TimeTable}
        \cup {Inspection(T0930NoColon, 3, 2, 1)}

T0930 == <<"0", "9", ":", "3", "0">>

\* two records of one hour, one for each of its slots
CrowdPool == {Inspection(T0905, 3, 2, 1), Inspection(T0930, 3, 2, 1)}

T0900 == <<"0", "9", ":", "0", "0">>

T1000 == <<"1", "0", ":", "0", "0">>

T1130 == <<"1", "1", ":", "3", "0">>

\* windows with start before, at and after end, and one without an end
Windows ==
    [start : {T0900, T1000}, end : {T0900, T1000, T1130}]
        \cup {[start |-> T0900]}

\* num_inspections = random.randint(12, 25): the fewest records drawn
MinMock == 12

T1600 == <<"1", "6", ":", "0", "0">>

\* two of the records generate_mock_data can draw
MockPool == {Inspection(T0900, 3, 2, 1), Inspection(T1000, 5, 2, 1)}

\* the lists generate_mock_data returns, cut at MaxMock records
MockLists == UNION {[1..n -> MockPool] : n \in MinMock..MaxMock}

\* the default criteria, criteria every record meets, and criteria that do
\* not parse
RequestCriteria ==
    { [bedrooms |-> <<"3", "-", "4">>, bathrooms |-> <<"2", "+">>,
       car_spots |-> <<"1", "-", "2">>],
      [bedrooms |-> <<"1", "+">>, bathrooms |-> <<"1", "+">>,
       car_spots |-> <<"0", "+">>],
      [bedrooms |-> <<"a">>, bathrooms |-> <<"2", "+">>,
       car_spots |-> <<"1", "-", "2">>] }

\* a window of three slots, the default window of fifteen, an empty one
RequestWindows ==
    { [start |-> T0900, end |-> T1000],
      [start |-> T0900, end |-> T1600],
      [start |-> T1000, end |-> T0900] }

BedroomSpecs == { <<"3", "-", "4">>, <<"4", "+">>, <<"a">> }

BathroomSpecs == { <<"2", "+">>, <<"1", "-", "2">> }

CarSpotSpecs == { <<"1", "-", "2">>, <<"1">> }

\* emails of requests: two spellings of one address, a second address, one
\* the schema takes and validate_email does not, and one with a newline at
\* its end
EmailPool ==
    { <<"a", "@", "b", ".", "i", "o">>,
      <<"A", "@", "B", ".", "i", "o">>,
      <<"c", "@", "b", ".", "i", "o">>,
      <<"a", "!", "@", "b", ".", "i", "o">>,
      <<"a", "@", "b", ".", "i", "o", "\n">> }

GoodPassword == <<"A", "b", "c", "d", "e", "f", "1", "!">>

\* a strong password, and one without upper-case letter and special
\* character
RegisterPasswords ==
    { GoodPassword,
      <<"a", "b", "c", "d", "e", "f", "g", "1">> }

\* the emails of login requests: the first address in two spellings and an
\* address nobody registers
LoginEmails ==
    { <<"a", "@", "b", ".", "i", "o">>,
      <<"A", "@", "B", ".", "i", "o">>,
      <<"z", "@", "b", ".", "i", "o">> }

\* the password users register with here
LoginPasswords == {GoodPassword}

\* the email and the passwords of the calls made to AuthService directly:
\* the password the user registers with, a second strong one, a wrong one
\* and a weak one
ServiceEmail == <<"a", "@", "b", ".", "i", "o">>

OtherPassword == <<"Z", "b", "c", "d", "e", "f", "1", "!">>

WrongPassword == <<"w", "r", "o", "n", "g">>

WeakPassword == <<"a", "b", "c", "d", "e", "f", "g", "1">>

\* what a call of an AuthService method came to, kept where the answer of
\* a route is kept: no HTTP status, the exception if one was raised
Called(raised, exc, message) ==
    [status |-> 0, raised |-> raised, exc |-> exc, message |-> message]

\* emails of requests to the in-memory register: a stored one in two
\* spellings, a new one in two spellings, and none
SimpleEmails ==
    { DemoEmail,
      <<"D", "e", "m", "o", "@", "R", "e", "a", "l", "E", "s", "t", "a", "t",
        "e", ".", "c", "o", "m">>,
      <<"a", "@", "b", ".", "i", "o">>,
      <<"A", "@", "B", ".", "i", "o">>,
      <<>> }

SimplePasswords == {GoodPassword, <<>>}

NoCredentials == Credentials("absent", NoToken, NoToken)

\* the credentials a client can send that holds the tokens given out
CredentialsOf(tokens) ==
    {NoCredentials, Credentials("no space", NoToken, NoToken)}
        \cup {Credentials("Bearer", tk, NoToken) :
                  tk \in tokens \cup {InvalidToken, NoToken}}
        \cup {Credentials("absent", NoToken, tk) : tk \in tokens}

\* the steps of the clock: the life of an access token
Durations == {AccessSeconds}

\* the steps of the clock of all the specifications: a second, the time
\* of a lock, the life of a reset token and a second, the life of an
\* access token and of a session, and that and a second
AllDurations ==
    {1, LockSeconds, ResetSeconds + 1, AccessSeconds, AccessSeconds + 1}

\* the times n steps of the clock lead to
RECURSIVE TimesAfter(_)
TimesAfter(n) ==
    IF n = 0 THEN {0}
    ELSE {t + d : t \in TimesAfter(n - 1), d \in AllDurations}

\* the least number of steps of the clock that lead to t
TicksOf(t) == CHOOSE n \in 0..(MaxTicks + 1) :
                  /\ t \in TimesAfter(n)
                  /\ \A m \in 0..(n - 1) : t \notin TimesAfter(m)

\* what a request carried
Request(route, email, password, cred, user_id) ==
    [route |-> route, email |-> email, password |-> password,
     cred |-> cred, user_id |-> user_id]

NoRequest == Request("", <<>>, <<>>, NoCredentials, 0)

\* the state of the authentication layer when the module is loaded: empty
\* tables (database_migration.py creates them), the two demo users
AuthLoaded ==
    /\ now = 0
    /\ users = <<>>
    /\ user_sessions = <<>>
    /\ issued = {}
    /\ logged_out = {}
    /\ request = NoRequest
    /\ handler_ran = FALSE
    /\ DEMO_USERS = DemoUsers
    /\ ACTIVE_TOKENS = {}
    /\ streak = <<>>
    /\ property_queries = {}

\* the scoring core runs without the authentication layer
NoAuth == app = "clean_api" /\ AuthLoaded

\* no request is in flight
NoThreads == threads = <<>> /\ frames = <<>>

-----------------------------------------------------------------------------
(* parse_criteria_value called on a string *)

InitParse ==
    /\ fn = "parse_criteria_value"
    /\ pc = "call"
    /\ criteria_str \in StringsUpTo(MaxSpecLen) \cup SpecExamples
    /\ similar_criteria = NoCriteria
    /\ inspections = <<>>
    /\ time_filter = NoTimeFilter
    /\ has_args = TRUE
    /\ parsed = NotCalled
    /\ filtered_inspections = NotCalled
    /\ competition_analysis = NotCalled
    /\ response = NoResponse
    /\ NoAuth
    /\ NoThreads

CallParseCriteriaValue ==
    /\ fn = "parse_criteria_value"
    /\ pc = "call"
    /\ parsed' = parse_criteria_value(criteria_str)
    /\ pc' = IF parsed'.raised THEN "raise" ELSE "return"
    /\ UNCHANGED <<fn, criteria_str, similar_criteria, inspections, time_filter,
                   has_args, filtered_inspections, competition_analysis,
                   response>>
    /\ UNCHANGED authVars
    /\ UNCHANGED threadVars

NextParse == CallParseCriteriaValue

SpecParse == InitParse /\ [][NextParse]_vars

-----------------------------------------------------------------------------
(* filter_similar_properties called on a record list, and called again on   *)
(* the list it returned                                                     *)

InitFilter ==
    /\ fn = "filter_similar_properties"
    /\ pc = "call"
    /\ criteria_str = <<>>
    /\ similar_criteria \in [bedrooms : BedroomSpecs,
                             bathrooms : BathroomSpecs,
                             car_spots : CarSpotSpecs]
    /\ inspections \in ListsUpTo(FilterPool, MaxRecords)
    /\ time_filter = NoTimeFilter
    /\ has_args = TRUE
    /\ parsed = NotCalled
    /\ filtered_inspections = NotCalled
    /\ competition_analysis = NotCalled
    /\ response = NoResponse
    /\ NoAuth
    /\ NoThreads

CallFilterSimilarProperties ==
    /\ fn = "filter_similar_properties"
    /\ pc = "call"
    /\ filtered_inspections' =
           filter_similar_properties(inspections, similar_criteria)
    /\ pc' = IF filtered_inspections'.raised THEN "raise" ELSE "return"
    /\ UNCHANGED <<fn, criteria_str, similar_criteria, inspections, time_filter,
                   has_args, parsed, competition_analysis, response>>
    /\ UNCHANGED authVars
    /\ UNCHANGED threadVars

\* the returned list is filtered once more with the same criteria
Refilter ==
    /\ fn = "filter_similar_properties"
    /\ pc = "return"
    /\ filtered_inspections' =
           filter_similar_properties(filtered_inspections.value,
                                     similar_criteria)
    /\ pc' = "return_again"
    /\ UNCHANGED <<fn, criteria_str, similar_criteria, inspections, time_filter,
                   has_args, parsed, competition_analysis, response>>
    /\ UNCHANGED authVars
    /\ UNCHANGED threadVars

NextFilter == CallFilterSimilarProperties \/ Refilter

SpecFilter == InitFilter /\ [][NextFilter]_vars

-----------------------------------------------------------------------------
(* analyze_competition called on a record list and a window *)

InitAnalyze ==
    /\ fn = "analyze_competition"
    /\ pc = "call"
    /\ criteria_str = <<>>
    /\ similar_criteria = NoCriteria
    /\ \/ /\ inspections \in ListsUpTo(AnalyzePool, MaxRecords)
          /\ time_filter \in Windows
       \/ /\ inspections \in ListsUpTo(CrowdPool, MaxCrowd)
          /\ time_filter = [start |-> T0900, end |-> T1000]
    /\ has_args = TRUE
    /\ parsed = NotCalled
    /\ filtered_inspections = NotCalled
    /\ competition_analysis = NotCalled
    /\ response = NoResponse
    /\ NoAuth
    /\ NoThreads

CallAnalyzeCompetition ==
    /\ fn = "analyze_competition"
    /\ pc = "call"
    /\ competition_analysis' = analyze_competition(inspections, time_filter)
    /\ pc' = IF competition_analysis'.raised THEN "raise" ELSE "return"
    /\ UNCHANGED <<fn, criteria_str, similar_criteria, inspections, time_filter,
                   has_args, parsed, filtered_inspections, response>>
    /\ UNCHANGED authVars
    /\ UNCHANGED threadVars

NextAnalyze == CallAnalyzeCompetition

SpecAnalyze == InitAnalyze /\ [][NextAnalyze]_vars

-----------------------------------------------------------------------------
(* GET /api/inspections *)

InitGet ==
    /\ fn = "get_inspections"
    /\ pc = "call"
    /\ criteria_str = <<>>
    /\ similar_criteria \in RequestCriteria
    /\ inspections = <<>>
    /\ time_filter \in RequestWindows
    /\ has_args \in BOOLEAN
    /\ parsed = NotCalled
    /\ filtered_inspections = NotCalled
    /\ competition_analysis = NotCalled
    /\ response = NoResponse
    /\ NoAuth
    /\ NoThreads

\* the handler without address or date: answered before any data is drawn
RejectMissingArgs ==
    /\ fn = "get_inspections"
    /\ pc = "call"
    /\ ~has_args
    /\ response' = get_inspections(has_args, similar_criteria, time_filter,
                                   <<>>)
    /\ pc' = "return"
    /\ UNCHANGED <<fn, criteria_str, similar_criteria, inspections, time_filter,
                   has_args, parsed, filtered_inspections,
                   competition_analysis>>
    /\ UNCHANGED authVars
    /\ UNCHANGED threadVars

\* the handler with address and date: it draws the mock data and answers
GetInspections ==
    /\ fn = "get_inspections"
    /\ pc = "call"
    /\ has_args
    /\ \E mock \in MockLists :
           /\ inspections' = mock
           /\ response' = get_inspections(has_args, similar_criteria,
                                          time_filter, mock)
    /\ pc' = "return"
    /\ UNCHANGED <<fn, criteria_str, similar_criteria, time_filter, has_args,
                   parsed, filtered_inspections, competition_analysis>>
    /\ UNCHANGED authVars
    /\ UNCHANGED threadVars

NextGet == RejectMissingArgs \/ GetInspections

SpecGet == InitGet /\ [][NextGet]_vars

-----------------------------------------------------------------------------
(* Requests to the authentication routes (auth_routes.py) and to the        *)
(* in-memory register (simple_auth_backend.py)                              *)

InitAuth ==
    /\ fn = "load"
    /\ pc = "serve"
    /\ criteria_str = <<>>
    /\ similar_criteria = NoCriteria
    /\ inspections = <<>>
    /\ time_filter = NoTimeFilter
    /\ has_args = TRUE
    /\ parsed = NotCalled
    /\ filtered_inspections = NotCalled
    /\ competition_analysis = NotCalled
    /\ response = NoResponse
    /\ app \in {"auth_routes", "simple_auth_backend"}
    /\ AuthLoaded
    /\ NoThreads

Register ==
    /\ app = "auth_routes"
    /\ \E email \in EmailPool, password \in RegisterPasswords :
           /\ request' = Request("register", email, password,
                                 NoCredentials, 0)
           /\ LET served == register(users, email, password, now)
              IN  /\ response' = served.response
                  /\ users' = served.users
                  /\ issued' = issued \cup served.tokens
                  /\ streak' = IF Len(served.users) > Len(users)
                               THEN Append(streak, 0) ELSE streak
    /\ fn' = "register"
    /\ handler_ran' = TRUE
    /\ UNCHANGED <<pc, app, now, user_sessions, logged_out, DEMO_USERS,
                   ACTIVE_TOKENS, property_queries>>
    /\ UNCHANGED coreVars
    /\ UNCHANGED threadVars

Login ==
    /\ app = "auth_routes"
    /\ \E email \in LoginEmails, password \in LoginPasswords :
           /\ request' = Request("login", email, password, NoCredentials, 0)
           /\ LET served == login(users, user_sessions, email, password,
                                  now)
              IN  /\ Len(served.user_sessions) <= MaxSessions
                  /\ response' = served.response
                  /\ users' = served.users
                  /\ user_sessions' = served.user_sessions
                  /\ issued' = issued \cup served.tokens
                  /\ streak' =
                         IF EmailField(email)
                         THEN StreakAfter(
                                  streak, users, email, password, now,
                                  authenticate_user(users, user_sessions,
                                                    email, password, now))
                         ELSE streak
    /\ fn' = "login"
    /\ handler_ran' = TRUE
    /\ UNCHANGED <<pc, app, now, logged_out, DEMO_USERS, ACTIVE_TOKENS,
                   property_queries>>
    /\ UNCHANGED coreVars
    /\ UNCHANGED threadVars

\* logged_out collects the tokens a logout answered 200 for
Logout ==
    /\ app = "auth_routes"
    /\ \E cred \in CredentialsOf(issued) :
           /\ request' = Request("logout", <<>>, <<>>, cred, 0)
           /\ LET served == logout(users, user_sessions, cred, now)
              IN  /\ response' = served.response
                  /\ user_sessions' = served.user_sessions
                  /\ handler_ran' = served.handler_ran
                  /\ logged_out' =
                         IF served.response.status = 200
                         THEN logged_out \cup {TokenOf(cred)}
                         ELSE logged_out
    /\ fn' = "logout"
    /\ UNCHANGED <<pc, app, now, users, issued, DEMO_USERS, ACTIVE_TOKENS>>
    /\ UNCHANGED <<streak, property_queries>>
    /\ UNCHANGED coreVars
    /\ UNCHANGED threadVars

GetCurrentUserInfo ==
    /\ app = "auth_routes"
    /\ \E cred \in CredentialsOf(issued) :
           /\ request' = Request("me", <<>>, <<>>, cred, 0)
           /\ LET served == get_current_user_info(users, user_sessions,
                                                  cred, now)
              IN  /\ response' = served.response
                  /\ handler_ran' = served.handler_ran
    /\ fn' = "get_current_user_info"
    /\ UNCHANGED <<pc, app, now, users, user_sessions, issued, logged_out,
                   DEMO_USERS, ACTIVE_TOKENS>>
    /\ UNCHANGED <<streak, property_queries>>
    /\ UNCHANGED coreVars
    /\ UNCHANGED threadVars

\* AuthService.deactivate_user, for a stored id or the next, unused one
DeactivateUser ==
    /\ app = "auth_routes"
    /\ \E user_id \in 1..(Len(users) + 1) :
           /\ request' = Request("deactivate_user", <<>>, <<>>,
                                 NoCredentials, user_id)
           /\ LET done == deactivate_user(users, user_sessions, user_id)
              IN  /\ users' = done.users
                  /\ user_sessions' = done.user_sessions
    /\ fn' = "deactivate_user"
    /\ response' = NoResponse
    /\ handler_ran' = TRUE
    /\ UNCHANGED <<pc, app, now, issued, logged_out, DEMO_USERS,
                   ACTIVE_TOKENS>>
    /\ UNCHANGED <<streak, property_queries>>
    /\ UNCHANGED coreVars
    /\ UNCHANGED threadVars

\* time passes between two requests
Tick ==
    /\ TicksOf(now) < MaxTicks
    /\ \E d \in Durations : now' = now + d
    /\ UNCHANGED <<fn, pc, response, app, users, user_sessions, issued,
                   logged_out, request, handler_ran, DEMO_USERS,
                   ACTIVE_TOKENS>>
    /\ UNCHANGED <<streak, property_queries>>
    /\ UNCHANGED coreVars
    /\ UNCHANGED threadVars

SimpleRegister ==
    /\ app = "simple_auth_backend"
    /\ \E email \in SimpleEmails, password \in SimplePasswords :
           /\ request' = Request("register", email, password,
                                 NoCredentials, 0)
           /\ LET served == simple_register(DEMO_USERS, ACTIVE_TOKENS,
                                            email, password, now)
              IN  /\ response' = served.response
                  /\ DEMO_USERS' = served.DEMO_USERS
                  /\ ACTIVE_TOKENS' = served.ACTIVE_TOKENS
    /\ fn' = "simple_register"
    /\ handler_ran' = TRUE
    /\ UNCHANGED <<pc, app, now, users, user_sessions, issued, logged_out>>
    /\ UNCHANGED <<streak, property_queries>>
    /\ UNCHANGED coreVars
    /\ UNCHANGED threadVars

NextAuth ==
    \/ Register
    \/ Login
    \/ Logout
    \/ GetCurrentUserInfo
    \/ DeactivateUser
    \/ Tick
    \/ SimpleRegister

SpecAuth == InitAuth /\ [][NextAuth]_vars

-----------------------------------------------------------------------------
(* filter_similar_properties of integrated_api.py called on a record list,  *)
(* and called again with the same list and criteria                         *)

\* records as scrape_domain_inspections returns them: no property_details
ScrapedPool == { [start_time |-> T0905], [start_time |-> T0930] }

InitIntegrated ==
    /\ fn = "integrated_filter_similar_properties"
    /\ pc = "call"
    /\ criteria_str = <<>>
    /\ similar_criteria \in RequestCriteria
    /\ inspections \in ListsUpTo(ScrapedPool, MaxScraped)
    /\ time_filter = NoTimeFilter
    /\ has_args = TRUE
    /\ parsed = NotCalled
    /\ filtered_inspections = NotCalled
    /\ competition_analysis = NotCalled
    /\ response = NoResponse
    /\ app = "integrated_api"
    /\ AuthLoaded
    /\ NoThreads

CallIntegratedFilter ==
    /\ fn = "integrated_filter_similar_properties"
    /\ pc = "call"
    /\ filtered_inspections' \in
           integrated_filter_similar_properties(inspections,
                                                similar_criteria)
    /\ pc' = IF filtered_inspections'.raised THEN "raise" ELSE "return"
    /\ UNCHANGED <<fn, criteria_str, similar_criteria, inspections, time_filter,
                   has_args, parsed, competition_analysis, response>>
    /\ UNCHANGED authVars
    /\ UNCHANGED threadVars

\* the same list and criteria are handed to the function once more
CallIntegratedFilterAgain ==
    /\ fn = "integrated_filter_similar_properties"
    /\ pc = "return"
    /\ filtered_inspections' \in
           integrated_filter_similar_properties(inspections,
                                                similar_criteria)
    /\ pc' = "return_again"
    /\ UNCHANGED <<fn, criteria_str, similar_criteria, inspections, time_filter,
                   has_args, parsed, competition_analysis, response>>
    /\ UNCHANGED authVars
    /\ UNCHANGED threadVars

NextIntegrated == CallIntegratedFilter \/ CallIntegratedFilterAgain

SpecIntegrated == InitIntegrated /\ [][NextIntegrated]_vars

-----------------------------------------------------------------------------
(* GET /api/inspections served for several requests side by side: each      *)
(* request goes through parse, filter, aggregate and rank, and between two  *)
(* of its steps the other requests may take theirs                          *)

\* a plausible slip: the intermediate results are kept in module-level
\* variables, which all requests share
Locals_module_level(r) == 1

\* where a request's calls keep their local variables: in frames of their
\* own (bed_min .. car_max, filtered_inspections, competition_analysis are
\* locals of the functions and of the handler)
Locals(r) == r

\* the locals before anything is assigned
NoFrame ==
    [bed |-> NotCalled, bath |-> NotCalled, car |-> NotCalled,
     filtered_inspections |-> NotCalled, competition_analysis |-> NotCalled]

\* two mock lists of MinMock records
SideBySideMocks ==
    { [i \in 1..MinMock |-> Inspection(T0900, 3, 2, 1)],
      [i \in 1..MinMock |->
          IF i <= 4 THEN Inspection(T0900, 4, 2, 1)
          ELSE Inspection(T1000, 5, 2, 1)] }

\* a request in flight: what it carries, the step it is at, its answer,
\* and whether another request was under way at one of its steps
InFlight ==
    [criteria : RequestCriteria,
     window : {[start |-> T0900, end |-> T1000]},
     mock : SideBySideMocks,
     pc : {"parse"},
     response : {NoResponse},
     overlapped : {FALSE}]

\* whether another request than r is between its first and its last step
OthersUnderWay(r) ==
    \E o \in DOMAIN threads :
        o # r /\ threads[o].pc \in {"filter", "aggregate", "rank"}

InitSideBySide ==
    /\ fn = "get_inspections"
    /\ pc = "serve"
    /\ criteria_str = <<>>
    /\ similar_criteria = NoCriteria
    /\ inspections = <<>>
    /\ time_filter = NoTimeFilter
    /\ has_args = TRUE
    /\ parsed = NotCalled
    /\ filtered_inspections = NotCalled
    /\ competition_analysis = NotCalled
    /\ response = NoResponse
    /\ NoAuth
    /\ threads \in [1..MaxRequests -> InFlight]
    /\ frames = [r \in 1..MaxRequests |-> NoFrame]

\* lines 94-96: the three criteria are parsed; a ValueError leaves the
\* function and the handler answers 500
ParseCriteria ==
    \E r \in DOMAIN threads :
        /\ threads[r].pc = "parse"
        /\ LET bed == parse_criteria_value(threads[r].criteria.bedrooms)
               bath == parse_criteria_value(threads[r].criteria.bathrooms)
               car == parse_criteria_value(threads[r].criteria.car_spots)
           IN  IF bed.raised \/ bath.raised \/ car.raised
               THEN /\ threads' =
                           [threads EXCEPT
                               ![r].pc = "done",
                               ![r].response =
                                   [status |-> 500, error |-> "ValueError"],
                               ![r].overlapped = @ \/ OthersUnderWay(r)]
                    /\ frames' = frames
               ELSE /\ threads' =
                           [threads EXCEPT
                               ![r].pc = "filter",
                               ![r].overlapped = @ \/ OthersUnderWay(r)]
                    /\ frames' = [frames EXCEPT ![Locals(r)].bed = bed,
                                                ![Locals(r)].bath = bath,
                                                ![Locals(r)].car = car]
        /\ UNCHANGED <<fn, pc, response>>
        /\ UNCHANGED coreVars
        /\ UNCHANGED authVars

\* lines 98-116: the loop over the inspections
FilterSimilarProperties ==
    \E r \in DOMAIN threads :
        /\ threads[r].pc = "filter"
        /\ threads' = [threads EXCEPT
                          ![r].pc = "aggregate",
                          ![r].overlapped = @ \/ OthersUnderWay(r)]
        /\ frames' =
               [frames EXCEPT
                   ![Locals(r)].filtered_inspections =
                       Returns(SelectSeq(threads[r].mock,
                           LAMBDA i : Matches(i, frames[Locals(r)].bed.value,
                                              frames[Locals(r)].bath.value,
                                              frames[Locals(r)].car.value)))]
        /\ UNCHANGED <<fn, pc, response>>
        /\ UNCHANGED coreVars
        /\ UNCHANGED authVars

\* line 206 of the handler: analyze_competition on the filtered list
AnalyzeCompetition ==
    \E r \in DOMAIN threads :
        /\ threads[r].pc = "aggregate"
        /\ threads' = [threads EXCEPT
                          ![r].pc = "rank",
                          ![r].overlapped = @ \/ OthersUnderWay(r)]
        /\ frames' =
               [frames EXCEPT
                   ![Locals(r)].competition_analysis =
                       analyze_competition(
                           frames[Locals(r)].filtered_inspections.value,
                           threads[r].window)]
        /\ UNCHANGED <<fn, pc, response>>
        /\ UNCHANGED coreVars
        /\ UNCHANGED authVars

\* lines 209-234 of the handler: the slots are sorted and the response is
\* built
RankSlots ==
    \E r \in DOMAIN threads :
        /\ threads[r].pc = "rank"
        /\ threads' =
               [threads EXCEPT
                   ![r].pc = "done",
                   ![r].response =
                       Respond(threads[r].mock,
                               frames[Locals(r)].filtered_inspections,
                               frames[Locals(r)].competition_analysis),
                   ![r].overlapped = @ \/ OthersUnderWay(r)]
        /\ frames' = frames
        /\ UNCHANGED <<fn, pc, response>>
        /\ UNCHANGED coreVars
        /\ UNCHANGED authVars

NextSideBySide ==
    \/ ParseCriteria
    \/ FilterSimilarProperties
    \/ AnalyzeCompetition
    \/ RankSlots

SpecSideBySide == InitSideBySide /\ [][NextSideBySide]_vars

-----------------------------------------------------------------------------
(* Calls of the AuthService methods, and the refresh route *)

\* AuthService.register_user
RegisterUser ==
    /\ app = "auth_service"
    /\ request' = Request("register_user", ServiceEmail, GoodPassword,
                          NoCredentials, 0)
    /\ LET r == register_user(users, ServiceEmail, GoodPassword, now)
       IN  /\ response' = Called(r.raised, r.exc, r.message)
           /\ users' = IF r.raised THEN users ELSE r.users
           /\ streak' = IF r.raised THEN streak ELSE Append(streak, 0)
    /\ fn' = "register_user"
    /\ handler_ran' = TRUE
    /\ UNCHANGED <<pc, app, now, user_sessions, issued, logged_out,
                   DEMO_USERS, ACTIVE_TOKENS, property_queries>>
    /\ UNCHANGED coreVars
    /\ UNCHANGED threadVars

\* AuthService.authenticate_user with the password of the registration
LoginUser ==
    /\ app = "auth_service"
    /\ request' = Request("authenticate_user", ServiceEmail, GoodPassword,
                          NoCredentials, 0)
    /\ LET r == authenticate_user(users, user_sessions, ServiceEmail,
                                  GoodPassword, now)
       IN  /\ Len(r.user_sessions) <= MaxSessions
           /\ response' = Called(r.raised, r.exc, r.message)
           /\ users' = r.users
           /\ user_sessions' = r.user_sessions
           /\ issued' = IF r.raised THEN issued
                        ELSE issued \cup {r.access_token, r.refresh_token}
           /\ streak' = StreakAfter(streak, users, ServiceEmail,
                                    GoodPassword, now, r)
    /\ fn' = "authenticate_user"
    /\ handler_ran' = TRUE
    /\ UNCHANGED <<pc, app, now, logged_out, DEMO_USERS, ACTIVE_TOKENS,
                   property_queries>>
    /\ UNCHANGED coreVars
    /\ UNCHANGED threadVars

\* AuthService.logout_user
LogoutUser ==
    /\ app = "auth_service"
    /\ \E token \in {tk \in issued : tk.type = "access"} \cup {InvalidToken} :
           /\ request' = Request("logout_user", <<>>, <<>>,
                                 Credentials("absent", token, NoToken), 0)
           /\ LET r == logout_user(user_sessions, token)
              IN  /\ response' = [status |-> 0, returned |-> r.success]
                  /\ user_sessions' = r.user_sessions
                  /\ logged_out' = IF r.success
                                   THEN logged_out \cup {token}
                                   ELSE logged_out
    /\ fn' = "logout_user"
    /\ handler_ran' = TRUE
    /\ UNCHANGED <<pc, app, now, users, issued, DEMO_USERS, ACTIVE_TOKENS,
                   streak, property_queries>>
    /\ UNCHANGED coreVars
    /\ UNCHANGED threadVars

\* AuthService.deactivate_user, for a stored id or the next, unused one
Deactivate ==
    /\ app = "auth_service"
    /\ \E user_id \in 1..(Len(users) + 1) :
           /\ request' = Request("deactivate_user", <<>>, <<>>,
                                 NoCredentials, user_id)
           /\ LET done == deactivate_user(users, user_sessions, user_id)
              IN  /\ response' = [status |-> 0, returned |-> done.success]
                  /\ users' = done.users
                  /\ user_sessions' = done.user_sessions
    /\ fn' = "deactivate_user"
    /\ handler_ran' = TRUE
    /\ UNCHANGED <<pc, app, now, issued, logged_out, DEMO_USERS,
                   ACTIVE_TOKENS, streak, property_queries>>
    /\ UNCHANGED coreVars
    /\ UNCHANGED threadVars

\* POST /api/auth/refresh
RefreshToken ==
    /\ app = "auth_service"
    /\ \E token \in issued \cup {InvalidToken, NoToken} :
           /\ request' = Request("refresh", <<>>, <<>>,
                                 Credentials("absent", token, NoToken), 0)
           /\ LET served == refresh_token(users, user_sessions, token, now)
              IN  /\ response' = served.response
                  /\ user_sessions' = served.user_sessions
                  /\ issued' = issued \cup served.tokens
    /\ fn' = "refresh_token"
    /\ handler_ran' = TRUE
    /\ UNCHANGED <<pc, app, now, users, logged_out, DEMO_USERS,
                   ACTIVE_TOKENS, streak, property_queries>>
    /\ UNCHANGED coreVars
    /\ UNCHANGED threadVars

\* time passes: a second, or the life of a session and a second
TickRefresh ==
    /\ TicksOf(now) < MaxTicks
    /\ \E d \in {1, AccessSeconds + 1} : now' = now + d
    /\ UNCHANGED <<fn, pc, response, app, users, user_sessions, issued,
                   logged_out, request, handler_ran, DEMO_USERS,
                   ACTIVE_TOKENS, streak, property_queries>>
    /\ UNCHANGED coreVars
    /\ UNCHANGED threadVars

\* the state when the tables have been created and nothing was called
InitService ==
    /\ fn = "load"
    /\ pc = "serve"
    /\ criteria_str = <<>>
    /\ similar_criteria = NoCriteria
    /\ inspections = <<>>
    /\ time_filter = NoTimeFilter
    /\ has_args = TRUE
    /\ parsed = NotCalled
    /\ filtered_inspections = NotCalled
    /\ competition_analysis = NotCalled
    /\ response = NoResponse
    /\ app = "auth_service"
    /\ AuthLoaded
    /\ NoThreads

NextRefresh ==
    \/ RegisterUser
    \/ LoginUser
    \/ LogoutUser
    \/ Deactivate
    \/ RefreshToken
    \/ TickRefresh

SpecRefresh == InitService /\ [][NextRefresh]_vars

-----------------------------------------------------------------------------
(* Calls of the AuthService and User methods that lock, unlock and change
   passwords *)

\* the password reset tokens given out
ResetTokens == {tk \in issued : tk.type = "reset"}

\* AuthService.authenticate_user with the password of the registration or
\* a wrong one
AuthenticateUser ==
    /\ app = "auth_service"
    /\ \E password \in {GoodPassword, WrongPassword} :
           /\ request' = Request("authenticate_user", ServiceEmail, password,
                                 NoCredentials, 0)
           /\ LET r == authenticate_user(users, user_sessions, ServiceEmail,
                                         password, now)
              IN  /\ Len(r.user_sessions) <= MaxSessions
                  /\ response' = Called(r.raised, r.exc, r.message)
                  /\ users' = r.users
                  /\ user_sessions' = r.user_sessions
                  /\ issued' = IF r.raised THEN issued
                               ELSE issued \cup
                                        {r.access_token, r.refresh_token}
                  /\ streak' = StreakAfter(streak, users, ServiceEmail,
                                           password, now, r)
    /\ fn' = "authenticate_user"
    /\ handler_ran' = TRUE
    /\ UNCHANGED <<pc, app, now, logged_out, DEMO_USERS, ACTIVE_TOKENS,
                   property_queries>>
    /\ UNCHANGED coreVars
    /\ UNCHANGED threadVars

\* AuthService.authenticate_user with the registered password, for users
\* that log in from several places
LoginAgain ==
    /\ app = "auth_service"
    /\ request' = Request("authenticate_user", ServiceEmail, GoodPassword,
                          NoCredentials, 0)
    /\ LET r == authenticate_user(users, user_sessions, ServiceEmail,
                                  GoodPassword, now)
       IN  /\ Len(r.user_sessions) <= MaxSessions + 1
           /\ response' = Called(r.raised, r.exc, r.message)
           /\ users' = r.users
           /\ user_sessions' = r.user_sessions
           /\ issued' = IF r.raised THEN issued
                        ELSE issued \cup {r.access_token, r.refresh_token}
           /\ streak' = StreakAfter(streak, users, ServiceEmail,
                                    GoodPassword, now, r)
    /\ fn' = "authenticate_user"
    /\ handler_ran' = TRUE
    /\ UNCHANGED <<pc, app, now, logged_out, DEMO_USERS, ACTIVE_TOKENS,
                   property_queries>>
    /\ UNCHANGED coreVars
    /\ UNCHANGED threadVars

\* User.lock_account, and the commit
LockAccount ==
    /\ app = "auth_service"
    /\ \E i \in 1..Len(users) :
           /\ request' = Request("lock_account", <<>>, <<>>, NoCredentials,
                                 users[i].id)
           /\ users' = [users EXCEPT ![i] = lock_account(@, now)]
           /\ streak' = [streak EXCEPT ![i] = 0]
    /\ response' = Called(FALSE, "", "")
    /\ fn' = "lock_account"
    /\ handler_ran' = TRUE
    /\ UNCHANGED <<pc, app, now, user_sessions, issued, logged_out,
                   DEMO_USERS, ACTIVE_TOKENS, property_queries>>
    /\ UNCHANGED coreVars
    /\ UNCHANGED threadVars

\* User.unlock_account, and the commit
UnlockAccount ==
    /\ app = "auth_service"
    /\ \E i \in 1..Len(users) :
           /\ request' = Request("unlock_account", <<>>, <<>>, NoCredentials,
                                 users[i].id)
           /\ users' = [users EXCEPT ![i] = unlock_account(@)]
           /\ streak' = [streak EXCEPT ![i] = 0]
    /\ response' = Called(FALSE, "", "")
    /\ fn' = "unlock_account"
    /\ handler_ran' = TRUE
    /\ UNCHANGED <<pc, app, now, user_sessions, issued, logged_out,
                   DEMO_USERS, ACTIVE_TOKENS, property_queries>>
    /\ UNCHANGED coreVars
    /\ UNCHANGED threadVars

\* AuthService.change_password, for a stored id or the next, unused one
ChangePassword ==
    /\ app = "auth_service"
    /\ \E user_id \in 1..(Len(users) + 1),
          current_password \in {GoodPassword, WrongPassword},
          new_password \in {OtherPassword, WeakPassword} :
           /\ request' = Request("change_password", <<>>, new_password,
                                 NoCredentials, user_id)
           /\ LET r == change_password(users, user_sessions, user_id,
                                       current_password, new_password)
              IN  /\ response' = Called(r.raised, r.exc, r.message)
                  /\ users' = r.users
                  /\ user_sessions' = r.user_sessions
    /\ fn' = "change_password"
    /\ handler_ran' = TRUE
    /\ UNCHANGED <<pc, app, now, issued, logged_out, DEMO_USERS,
                   ACTIVE_TOKENS, streak, property_queries>>
    /\ UNCHANGED coreVars
    /\ UNCHANGED threadVars

\* AuthService.request_password_reset
RequestPasswordReset ==
    /\ app = "auth_service"
    /\ Cardinality(ResetTokens) < MaxResets
    /\ request' = Request("request_password_reset", ServiceEmail, <<>>,
                          NoCredentials, 0)
    /\ LET r == request_password_reset(
                    users, ServiceEmail,
                    ResetToken(Cardinality(ResetTokens) + 1), now)
       IN  /\ response' = [status |-> 0, returned |-> r.token]
           /\ users' = r.users
           /\ issued' = IF r.token.none THEN issued
                        ELSE issued \cup {r.token.value}
    /\ fn' = "request_password_reset"
    /\ handler_ran' = TRUE
    /\ UNCHANGED <<pc, app, now, user_sessions, logged_out, DEMO_USERS,
                   ACTIVE_TOKENS, streak, property_queries>>
    /\ UNCHANGED coreVars
    /\ UNCHANGED threadVars

\* AuthService.reset_password, with a token given out or a made-up one
ResetPassword ==
    /\ app = "auth_service"
    /\ \E token \in ResetTokens \cup {InvalidToken},
          new_password \in {OtherPassword, WeakPassword} :
           /\ request' = Request("reset_password", <<>>, new_password,
                                 Credentials("absent", token, NoToken), 0)
           /\ LET r == reset_password(users, user_sessions, token,
                                      new_password, now)
              IN  /\ response' = Called(r.raised, r.exc, r.message)
                  /\ users' = r.users
                  /\ user_sessions' = r.user_sessions
                  /\ streak' = IF r.raised THEN streak
                               ELSE [streak EXCEPT
                                        ![ByResetToken(users, token)] = 0]
    /\ fn' = "reset_password"
    /\ handler_ran' = TRUE
    /\ UNCHANGED <<pc, app, now, issued, logged_out, DEMO_USERS,
                   ACTIVE_TOKENS, property_queries>>
    /\ UNCHANGED coreVars
    /\ UNCHANGED threadVars

\* time passes: a second, or the time of a lock
TickLockout ==
    /\ TicksOf(now) < MaxTicks
    /\ \E d \in {1, LockSeconds} : now' = now + d
    /\ UNCHANGED <<fn, pc, response, app, users, user_sessions, issued,
                   logged_out, request, handler_ran, DEMO_USERS,
                   ACTIVE_TOKENS, streak, property_queries>>
    /\ UNCHANGED coreVars
    /\ UNCHANGED threadVars

\* time passes: a second, or the life of a reset token and a second
TickPassword ==
    /\ TicksOf(now) < MaxTicks
    /\ \E d \in {1, ResetSeconds + 1} : now' = now + d
    /\ UNCHANGED <<fn, pc, response, app, users, user_sessions, issued,
                   logged_out, request, handler_ran, DEMO_USERS,
                   ACTIVE_TOKENS, streak, property_queries>>
    /\ UNCHANGED coreVars
    /\ UNCHANGED threadVars

NextLockout ==
    \/ RegisterUser
    \/ AuthenticateUser
    \/ LockAccount
    \/ UnlockAccount
    \/ RequestPasswordReset
    \/ ResetPassword
    \/ TickLockout

SpecLockout == InitService /\ [][NextLockout]_vars

NextPassword ==
    \/ RegisterUser
    \/ LoginAgain
    \/ ChangePassword
    \/ RequestPasswordReset
    \/ ResetPassword
    \/ Deactivate
    \/ TickPassword

SpecPassword == InitService /\ [][NextPassword]_vars

-----------------------------------------------------------------------------
(* Requests to auth_integration.py: the registration of auth_routes.py and
   the two routes that read the rows of a user *)

\* the emails of the people who register here
IntegrationEmails ==
    { <<"a", "@", "b", ".", "i", "o">>,
      <<"z", "@", "b", ".", "i", "o">> }

InitIntegration ==
    /\ fn = "load"
    /\ pc = "serve"
    /\ criteria_str = <<>>
    /\ similar_criteria = NoCriteria
    /\ inspections = <<>>
    /\ time_filter = NoTimeFilter
    /\ has_args = TRUE
    /\ parsed = NotCalled
    /\ filtered_inspections = NotCalled
    /\ competition_analysis = NotCalled
    /\ response = NoResponse
    /\ app = "auth_integration"
    /\ AuthLoaded
    /\ NoThreads

\* POST /api/auth/register of the blueprint registered on this app
IntegrationRegister ==
    /\ app = "auth_integration"
    /\ \E email \in IntegrationEmails :
           /\ request' = Request("register", email, GoodPassword,
                                 NoCredentials, 0)
           /\ LET served == register(users, email, GoodPassword, now)
              IN  /\ response' = served.response
                  /\ users' = served.users
                  /\ issued' = issued \cup served.tokens
                  /\ streak' = IF Len(served.users) > Len(users)
                               THEN Append(streak, 0) ELSE streak
    /\ fn' = "register"
    /\ handler_ran' = TRUE
    /\ property_queries' = {}
    /\ UNCHANGED <<pc, app, now, user_sessions, logged_out, DEMO_USERS,
                   ACTIVE_TOKENS>>
    /\ UNCHANGED coreVars
    /\ UNCHANGED threadVars

\* property_queries holds the queries for rows the request made
GetUserProperties ==
    /\ app = "auth_integration"
    /\ \E cred \in CredentialsOf(issued), user_id \in 1..(Len(users) + 1) :
           /\ request' = Request("get_user_properties", <<>>, <<>>, cred,
                                 user_id)
           /\ LET served == get_user_properties(users, cred, user_id, now)
              IN  /\ response' = served.response
                  /\ handler_ran' = served.handler_ran
                  /\ property_queries' = served.queried
    /\ fn' = "get_user_properties"
    /\ UNCHANGED <<pc, app, now, users, user_sessions, issued, logged_out,
                   DEMO_USERS, ACTIVE_TOKENS, streak>>
    /\ UNCHANGED coreVars
    /\ UNCHANGED threadVars

GetAnalysisHistory ==
    /\ app = "auth_integration"
    /\ \E cred \in CredentialsOf(issued), user_id \in 1..(Len(users) + 1) :
           /\ request' = Request("get_analysis_history", <<>>, <<>>, cred,
                                 user_id)
           /\ LET served == get_analysis_history(users, cred, user_id, now)
              IN  /\ response' = served.response
                  /\ handler_ran' = served.handler_ran
                  /\ property_queries' = served.queried
    /\ fn' = "get_analysis_history"
    /\ UNCHANGED <<pc, app, now, users, user_sessions, issued, logged_out,
                   DEMO_USERS, ACTIVE_TOKENS, streak>>
    /\ UNCHANGED coreVars
    /\ UNCHANGED threadVars

\* time passes: the life of an access token
TickIntegration ==
    /\ TicksOf(now) < MaxTicks
    /\ now' = now + AccessSeconds
    /\ UNCHANGED <<fn, pc, response, app, users, user_sessions, issued,
                   logged_out, request, handler_ran, DEMO_USERS,
                   ACTIVE_TOKENS, streak, property_queries>>
    /\ UNCHANGED coreVars
    /\ UNCHANGED threadVars

NextIntegration ==
    \/ IntegrationRegister
    \/ GetUserProperties
    \/ GetAnalysisHistory
    \/ TickIntegration

SpecIntegration == InitIntegration /\ [][NextIntegration]_vars

-----------------------------------------------------------------------------
(* Register requests of simple_auth_backend.py served by the threads of
   app.run: each thread runs register() on its own locals over the one
   DEMO_USERS and the one ACTIVE_TOKENS of the process *)

\* the emails of the requests: a new address in two spellings and another
RacingEmails ==
    { <<"a", "@", "b", ".", "i", "o">>,
      <<"A", "@", "B", ".", "i", "o">>,
      <<"z", "@", "b", ".", "i", "o">> }

\* the locals of register() before user_id is assigned
NoLocals == [user_id |-> 0]

InitRegisters ==
    /\ fn = "load"
    /\ pc = "serve"
    /\ criteria_str = <<>>
    /\ similar_criteria = NoCriteria
    /\ inspections = <<>>
    /\ time_filter = NoTimeFilter
    /\ has_args = TRUE
    /\ parsed = NotCalled
    /\ filtered_inspections = NotCalled
    /\ competition_analysis = NotCalled
    /\ response = NoResponse
    /\ app = "simple_auth_backend"
    /\ AuthLoaded
    /\ threads \in [1..MaxRequests ->
                       [email : RacingEmails, password : {GoodPassword},
                        pc : {"check"}, response : {NoResponse}]]
    /\ frames = [r \in 1..MaxRequests |-> NoLocals]

\* lines 121-130: the email lower-cased, 400 without email or password and
\* for an email that is in DEMO_USERS
RegisterCheck ==
    /\ app = "simple_auth_backend"
    /\ \E r \in 1..Len(threads) :
        /\ threads[r].pc = "check"
        /\ threads' =
               [threads EXCEPT
                   ![r] =
                       IF Lower(@.email) = <<>> \/ @.password = <<>>
                       THEN [@ EXCEPT
                                !.pc = "done",
                                !.response =
                                    Error(400,
                                          "Email and password are required")]
                       ELSE IF Lower(@.email) \in DOMAIN DEMO_USERS
                       THEN [@ EXCEPT
                                !.pc = "done",
                                !.response =
                                    Error(400, "User already exists")]
                       ELSE [@ EXCEPT !.pc = "user_id"]]
        /\ UNCHANGED frames
    /\ UNCHANGED <<fn, pc, response>>
    /\ UNCHANGED coreVars
    /\ UNCHANGED authVars

\* line 133: user_id = len(DEMO_USERS) + 1
RegisterUserId ==
    /\ app = "simple_auth_backend"
    /\ \E r \in 1..Len(threads) :
        /\ threads[r].pc = "user_id"
        /\ frames' = [frames EXCEPT
                         ![r].user_id = Cardinality(DOMAIN DEMO_USERS) + 1]
        /\ threads' = [threads EXCEPT ![r].pc = "store"]
    /\ UNCHANGED <<fn, pc, response>>
    /\ UNCHANGED coreVars
    /\ UNCHANGED authVars

\* lines 134-147: DEMO_USERS[email] = new_user
RegisterStore ==
    /\ app = "simple_auth_backend"
    /\ \E r \in 1..Len(threads) :
        /\ threads[r].pc = "store"
        /\ DEMO_USERS' =
               [e \in DOMAIN DEMO_USERS \cup {Lower(threads[r].email)} |->
                   IF e = Lower(threads[r].email)
                   THEN DemoUser(frames[r].user_id, Lower(threads[r].email),
                                 threads[r].password)
                   ELSE DEMO_USERS[e]]
        /\ threads' = [threads EXCEPT ![r].pc = "token"]
        /\ UNCHANGED frames
    /\ UNCHANGED <<fn, pc, response>>
    /\ UNCHANGED coreVars
    /\ UNCHANGED <<app, now, users, user_sessions, issued, request,
                   handler_ran, ACTIVE_TOKENS, logged_out, streak,
                   property_queries>>

\* lines 150-161: the token of new_user is added to ACTIVE_TOKENS and the
\* answer is 201
RegisterToken ==
    /\ app = "simple_auth_backend"
    /\ \E r \in 1..Len(threads) :
        /\ threads[r].pc = "token"
        /\ ACTIVE_TOKENS' =
               ACTIVE_TOKENS \cup
                   {generate_token(
                        DemoUser(frames[r].user_id, Lower(threads[r].email),
                                 threads[r].password), now)}
        /\ threads' =
               [threads EXCEPT
                   ![r].pc = "done",
                   ![r].response =
                       [status |-> 201,
                        message |-> "User registered successfully",
                        access_token |->
                            generate_token(
                                DemoUser(frames[r].user_id,
                                         Lower(threads[r].email),
                                         threads[r].password), now)]]
        /\ UNCHANGED frames
    /\ UNCHANGED <<fn, pc, response>>
    /\ UNCHANGED coreVars
    /\ UNCHANGED <<app, now, users, user_sessions, issued, request,
                   handler_ran, DEMO_USERS, logged_out, streak,
                   property_queries>>

NextRegisters ==
    \/ RegisterCheck
    \/ RegisterUserId
    \/ RegisterStore
    \/ RegisterToken

SpecRegisters == InitRegisters /\ [][NextRegisters]_vars


\* a string of one or more digits
IsNumeral(s) == s # <<>> /\ \A i \in 1..Len(s) : IsDigit(s[i])

\* C2: parsing a bounded range 'N-M' with M < N fails: it returns no pair
C2_ReversedRangeFails ==
    (fn = "parse_criteria_value" /\ pc # "call") =>
        \A i \in 1..Len(criteria_str) :
            LET n == SubSeq(criteria_str, 1, i - 1)
                m == SubSeq(criteria_str, i + 1, Len(criteria_str))
            IN  (/\ criteria_str[i] = "-"
                 /\ IsNumeral(n) /\ IsNumeral(m)
                 /\ DecVal(m) < DecVal(n)) => parsed.raised

\* C3: for valid specs over non-negative integers N <= M the parser returns
\* (N, N) for 'N', (N, +infinity) for 'N+' and (N, M) for 'N-M'
C3_ValidSpecsParse ==
    (fn = "parse_criteria_value" /\ pc # "call") =>
        LET s == criteria_str
            front == SubSeq(s, 1, Len(s) - 1)
        IN  /\ IsNumeral(s) =>
                   parsed = Returns(<<DecVal(s), Fin(DecVal(s))>>)
            /\ (s # <<>> /\ s[Len(s)] = "+" /\ IsNumeral(front)) =>
                   parsed = Returns(<<DecVal(front), Inf>>)
            /\ \A i \in 1..Len(s) :
                   LET n == SubSeq(s, 1, i - 1)
                       m == SubSeq(s, i + 1, Len(s))
                   IN  (/\ s[i] = "-"
                        /\ IsNumeral(n) /\ IsNumeral(m)
                        /\ DecVal(n) <= DecVal(m)) =>
                           parsed = Returns(<<DecVal(n), Fin(DecVal(m))>>)

\* a bounded range has been parsed into its two ends
C3_Witness ==
    /\ fn = "parse_criteria_value" /\ pc = "return"
    /\ criteria_str = <<"1", "-", "3">>
    /\ parsed = Returns(<<1, Fin(3)>>)


\* the records of a list that carry all three values
HasValues(r) ==
    /\ "property_details" \in DOMAIN r
    /\ {"bedrooms", "bathrooms", "car_spots"} \subseteq DOMAIN r.property_details

Elements(seq) == {seq[i] : i \in 1..Len(seq)}

\* C1: a record is retained iff bed_min <= bedrooms <= bed_max, bath_min <=
\* bathrooms <= bath_max and car_min <= car_spots <= car_max, both ends
\* inclusive and an 'N+' max unbounded; under 3-4 / 2+ / 1-2 the record
\* {3,2,1} is retained and every record with bedrooms 5 is dropped
C1_RetainedIffInRange ==
    (fn = "filter_similar_properties" /\ pc = "return") =>
        LET bed == parse_criteria_value(similar_criteria.bedrooms).value
            bath == parse_criteria_value(similar_criteria.bathrooms).value
            car == parse_criteria_value(similar_criteria.car_spots).value
            out == Elements(filtered_inspections.value)
            Within(x, range) ==
                range[1] <= x /\ (range[2].inf \/ x <= range[2].n)
        IN  /\ out \subseteq Elements(inspections)
            /\ \A r \in Elements(inspections) :
                   HasValues(r) =>
                       (r \in out <=>
                           /\ Within(r.property_details.bedrooms, bed)
                           /\ Within(r.property_details.bathrooms, bath)
                           /\ Within(r.property_details.car_spots, car))
            /\ similar_criteria = [bedrooms |-> <<"3", "-", "4">>,
                                   bathrooms |-> <<"2", "+">>,
                                   car_spots |-> <<"1", "-", "2">>] =>
                   /\ Inspection(T0905, 3, 2, 1) \in Elements(inspections)
                          => Inspection(T0905, 3, 2, 1) \in out
                   /\ \A r \in out :
                          HasValues(r) => r.property_details.bedrooms # 5

\* under 3-4 / 2+ / 1-2 the filter kept {3,2,1} and {4,3,2}, the upper ends
\* of the ranges included, and dropped a record with bedrooms 5
C1_Witness ==
    /\ fn = "filter_similar_properties" /\ pc = "return"
    /\ similar_criteria = [bedrooms |-> <<"3", "-", "4">>,
                           bathrooms |-> <<"2", "+">>,
                           car_spots |-> <<"1", "-", "2">>]
    /\ inspections = <<Inspection(T0905, 5, 2, 1), Inspection(T0905, 4, 3, 2),
                       Inspection(T0905, 3, 2, 1)>>
    /\ filtered_inspections.value =
           <<Inspection(T0905, 4, 3, 2), Inspection(T0905, 3, 2, 1)>>

\* C10: filtering an already-filtered list with the same criteria returns
\* the same list, element for element and in the same order
C10_FilterIdempotent ==
    [][(pc = "return" /\ pc' = "return_again") =>
           /\ ~filtered_inspections'.raised
           /\ filtered_inspections'.value = filtered_inspections.value]_vars

\* a list that lost a record in the first call and kept two went through
\* the filter a second time
C10_Witness ==
    /\ fn = "filter_similar_properties" /\ pc = "return_again"
    /\ Len(filtered_inspections.value) = 2
    /\ Len(inspections) = 3

\* out picks its elements from positions of inp that strictly increase
IsSubsequence(out, inp) ==
    \E f \in [1..Len(out) -> 1..Len(inp)] :
        /\ \A i \in 1..Len(out) : out[i] = inp[f[i]]
        /\ \A i, j \in 1..Len(out) : i < j => f[i] < f[j]

\* C11: the list filter_similar_properties returns is a subsequence of its
\* input (input order kept, each input position used at most once), and the
\* call leaves the input list and every record in it as they were
C11_OutputIsSubsequence ==
    [][(fn = "filter_similar_properties" /\ pc = "call") =>
           /\ inspections' = inspections
           /\ ~filtered_inspections'.raised =>
                  IsSubsequence(filtered_inspections'.value, inspections)]_vars

\* of three distinct records the middle one was dropped and the other two
\* came back in their input order
C11_Witness ==
    /\ fn = "filter_similar_properties" /\ pc = "return"
    /\ inspections = <<Inspection(T0905, 4, 3, 2), Inspection(T0905, 5, 2, 1),
                       Inspection(T0905, 3, 2, 1)>>
    /\ filtered_inspections.value =
           <<Inspection(T0905, 4, 3, 2), Inspection(T0905, 3, 2, 1)>>

\* the value the filter reads for an attribute of a record, by the four
\* cases of what the record carries
ReadAs(r, attribute, default) ==
    IF "property_details" \notin DOMAIN r THEN default
    ELSE IF attribute \notin DOMAIN r.property_details THEN default
    ELSE r.property_details[attribute]

\* C12: a missing property_details, bedrooms, bathrooms or car_spots is
\* evaluated as 3, 2 and 1, and the record is kept or dropped by the same
\* range test; no record is dropped only because an attribute is absent
C12_AbsentReadAsDefault ==
    (fn = "filter_similar_properties" /\ pc = "return") =>
        LET bed == parse_criteria_value(similar_criteria.bedrooms).value
            bath == parse_criteria_value(similar_criteria.bathrooms).value
            car == parse_criteria_value(similar_criteria.car_spots).value
            out == Elements(filtered_inspections.value)
            Within(x, range) ==
                range[1] <= x /\ (range[2].inf \/ x <= range[2].n)
        IN  \A r \in Elements(inspections) :
                ~HasValues(r) =>
                    (r \in out <=>
                        /\ Within(ReadAs(r, "bedrooms", 3), bed)
                        /\ Within(ReadAs(r, "bathrooms", 2), bath)
                        /\ Within(ReadAs(r, "car_spots", 1), car))

\* under 3-4 / 2+ / 1-2 a record without property_details was kept, and a
\* record without bedrooms was dropped for its car_spots 0
C12_Witness ==
    /\ fn = "filter_similar_properties" /\ pc = "return"
    /\ similar_criteria = [bedrooms |-> <<"3", "-", "4">>,
                           bathrooms |-> <<"2", "+">>,
                           car_spots |-> <<"1", "-", "2">>]
    /\ inspections =
           << [start_time |-> T0905,
               property_details |-> [bathrooms |-> 2, car_spots |-> 0]],
              [start_time |-> T0905] >>
    /\ filtered_inspections.value = << [start_time |-> T0905] >>

\* whether each of the three specs of the criteria parses
CriteriaParse ==
    /\ ~parse_criteria_value(similar_criteria.bedrooms).raised
    /\ ~parse_criteria_value(similar_criteria.bathrooms).raised
    /\ ~parse_criteria_value(similar_criteria.car_spots).raised

\* C13 as stated: on the empty list the filter returns the empty list as a
\* normal result, whatever the criteria
C13_EmptyInEmptyOutAnyCriteria ==
    (fn = "filter_similar_properties" /\ pc # "call" /\ inspections = <<>>)
        => filtered_inspections = Returns(<<>>)

\* C13: on the empty list the filter returns the empty list as a normal
\* result for all criteria whose three specs parse; when a spec does not
\* parse the call raises ValueError, on the empty list too
C13_EmptyInEmptyOut ==
    (fn = "filter_similar_properties" /\ pc # "call" /\ inspections = <<>>)
        => filtered_inspections =
               IF CriteriaParse THEN Returns(<<>>) ELSE ValueError

\* the empty list went through the filter and came back empty
C13_Witness ==
    /\ fn = "filter_similar_properties" /\ pc = "return"
    /\ inspections = <<>>
    /\ filtered_inspections = Returns(<<>>)

-----------------------------------------------------------------------------
(* What the claims about analyze_competition speak of *)

\* HH:MM written with two digits each, for 0 <= h, m <= 99
Clock(h, m) ==
    <<Digits[(h \div 10) + 1], Digits[(h % 10) + 1], ":",
      Digits[(m \div 10) + 1], Digits[(m % 10) + 1]>>

\* the hour of a window bound written HH:MM
HourOfBound(t) == 10 * DigitVal(t[1]) + DigitVal(t[2])

StartHour ==
    IF "start" \in DOMAIN time_filter THEN HourOfBound(time_filter.start)
    ELSE 9

EndHour ==
    IF "end" \in DOMAIN time_filter THEN HourOfBound(time_filter.end)
    ELSE 16

Returned == fn = "analyze_competition" /\ pc = "return"

Buckets == competition_analysis.value

BucketKeys == {Buckets[i].time : i \in 1..Len(Buckets)}

WellFormed(r) == \E e \in TimeTable : e.text = r.start_time

Meaning(r) == CHOOSE e \in TimeTable : e.text = r.start_time

\* the key of the half hour a record's start time lies in
FloorKey(r) ==
    Clock(Meaning(r).hour, IF Meaning(r).minute < 30 THEN 0 ELSE 30)

RECURSIVE SumOfCounts(_)
SumOfCounts(slots) ==
    IF slots = <<>> THEN 0 ELSE Head(slots).count + SumOfCounts(Tail(slots))

\* C4 as claimed: for every window, start after end included, the list has
\* exactly 2*(endHour-startHour)+1 buckets, the last keyed endHour:00, and
\* none keyed endHour:30
C4_BucketCountAllWindows ==
    Returned =>
        /\ Len(Buckets) = 2 * (EndHour - StartHour) + 1
        /\ Buckets[Len(Buckets)].time = Clock(EndHour, 0)
        /\ Clock(EndHour, 30) \notin BucketKeys

\* C4 as amended: for startHour <= endHour the list has exactly
\* 2*(endHour-startHour)+1 buckets, the last keyed endHour:00; for
\* startHour > endHour it is empty; it never has a bucket keyed endHour:30
C4_BucketCount ==
    Returned =>
        /\ StartHour <= EndHour =>
               /\ Len(Buckets) = 2 * (EndHour - StartHour) + 1
               /\ Buckets[Len(Buckets)].time = Clock(EndHour, 0)
        /\ StartHour > EndHour => Buckets = <<>>
        /\ Clock(EndHour, 30) \notin BucketKeys

\* the window 09:00 to 11:30 gave the five buckets 09:00 .. 11:00
C4_Witness ==
    /\ Returned
    /\ time_filter = [start |-> T0900, end |-> T1130]
    /\ Len(Buckets) = 5
    /\ Buckets[5].time = <<"1", "1", ":", "0", "0">>

\* C5: the counts sum to at most the number of input records, and to exactly
\* that number iff every record's floor-rounded start time is a bucket key
C5_CountsBoundedByInput ==
    Returned =>
        /\ SumOfCounts(Buckets) <= Len(inspections)
        /\ SumOfCounts(Buckets) = Len(inspections) <=>
               \A i \in 1..Len(inspections) :
                   FloorKey(inspections[i]) \in BucketKeys

\* of three records two fell into the window
C5_Witness ==
    /\ Returned
    /\ Len(inspections) = 3
    /\ SumOfCounts(Buckets) = 2

\* C6: a bucket's level is a function of its final count: low iff count <= 2,
\* medium iff 3..5, high iff 6..10, very-high iff count > 10
C6_LevelFromCount ==
    Returned =>
        \A i \in 1..Len(Buckets) :
            LET count == Buckets[i].count
                level == Buckets[i].competition
            IN  /\ level \in {"low", "medium", "high", "very-high"}
                /\ level = "low" <=> count <= 2
                /\ level = "medium" <=> (3 <= count /\ count <= 5)
                /\ level = "high" <=> (6 <= count /\ count <= 10)
                /\ level = "very-high" <=> count > 10

\* one bucket holds eleven records and another one none
C6_Witness ==
    /\ Returned
    /\ \E i, j \in 1..Len(Buckets) :
           /\ Buckets[i].count = 11 /\ Buckets[i].competition = "very-high"
           /\ Buckets[j].count = 0 /\ Buckets[j].competition = "low"

C9_OutsideRecordsDropped ==
    (/\ fn = "analyze_competition" /\ pc # "call"
     /\ \A i \in 1..Len(inspections) : WellFormed(inspections[i])) =>
        LET keys == {Clock(h, m) : h \in StartHour..EndHour, m \in {0, 30}}
                        \ {Clock(EndHour, 30)}
            Inside(r) == FloorKey(r) \in keys
        IN  /\ pc = "return"
            /\ \A i \in 1..Len(inspections) :
                   ~Inside(inspections[i]) =>
                       \A j \in 1..Len(Buckets) :
                           \A k \in 1..Len(Buckets[j].properties) :
                               Buckets[j].properties[k] # inspections[i]
            /\ SumOfCounts(Buckets) =
                   Len(SelectSeq(inspections, Inside))
            /\ LET alone == analyze_competition(
                                SelectSeq(inspections, Inside), time_filter)
               IN  ~alone.raised /\ Buckets = alone.value

\* a list with a record before the window and a record inside it was
\* analysed: one record is counted
C9_Witness ==
    /\ Returned
    /\ time_filter = [start |-> T0900, end |-> T1000]
    /\ inspections = <<Inspection(<<"0", "8", ":", "4", "5">>, 3, 2, 1),
                       Inspection(T0905, 3, 2, 1)>>
    /\ SumOfCounts(Buckets) = 1

-----------------------------------------------------------------------------
(* What the claim about the recommendations speaks of *)

\* C7: the recommendations are the first min(5, number of buckets) buckets
\* of the bucket list stably sorted by count: bucket j, with r buckets before
\* it in that order (a smaller count, or the same count and an earlier
\* place), is recommendation r + 1 when r < 5; so the list is non-decreasing
\* in count, ties are chronological and no bucket left out has a smaller
\* count than one included
C7_RecommendationsRanked ==
    (fn = "get_inspections" /\ pc = "return" /\ response.status = 200) =>
        LET slots == response.competition_analysis
            recs == response.recommendations
            n == Len(slots)
            Before(j) == {l \in 1..n :
                              \/ slots[l].count < slots[j].count
                              \/ /\ slots[l].count = slots[j].count
                                 /\ l < j}
        IN  /\ Len(recs) = IF n < 5 THEN n ELSE 5
            /\ \A j \in 1..n :
                   Cardinality(Before(j)) < 5 =>
                       recs[Cardinality(Before(j)) + 1] = slots[j]
            /\ \A i \in 1..(Len(recs) - 1) : recs[i].count <= recs[i + 1].count
            /\ \A j \in 1..n :
                   (\A i \in 1..Len(recs) : recs[i] # slots[j]) =>
                       \A i \in 1..Len(recs) : recs[i].count <= slots[j].count

\* a response over three buckets, 09:00 and 10:00 tied at six records:
\* the empty 09:30 comes first, then 09:00 before 10:00
C7_Witness ==
    /\ fn = "get_inspections" /\ pc = "return" /\ response.status = 200
    /\ Len(response.competition_analysis) = 3
    /\ Len(response.recommendations) = 3
    /\ response.recommendations[1].time = T0930
    /\ response.recommendations[2].time = T0900
    /\ response.recommendations[2].count = 6
    /\ response.recommendations[3].time = T1000
    /\ response.recommendations[3].count = 6

-----------------------------------------------------------------------------
(* What the claims about errors speak of *)

\* C14: a request whose criteria do not parse is rejected with a 4xx status
\* and a message; every other request with address and date is answered
\* normally
C14_BadCriteriaRejected4xx ==
    (fn = "get_inspections" /\ pc = "return" /\ has_args) =>
        IF CriteriaParse
        THEN response.status = 200
        ELSE response.status \in 400..499 /\ "error" \in DOMAIN response

\* the start times of a list that are HH:MM
WellFormedOnly(records) == SelectSeq(records, WellFormed)

\* C15: a record whose start_time is not HH:MM is skipped: the call returns,
\* and its buckets are those of the well-formed records of the list
C15_MalformedRecordSkipped ==
    (fn = "analyze_competition" /\ pc # "call") =>
        /\ pc = "return"
        /\ Buckets =
               analyze_competition(WellFormedOnly(inspections),
                                   time_filter).value

\* C16: a spec with '-' and without '+' parses iff splitting it on '-' gives
\* exactly two parts and both are integers; '1-2-3', '-3', '3-' and 'a-2'
\* fail
C16_RangeNeedsTwoIntegerParts ==
    (/\ fn = "parse_criteria_value" /\ pc # "call"
     /\ Contains(criteria_str, "-") /\ ~Contains(criteria_str, "+")) =>
        LET parts == Split(criteria_str, "-")
        IN  parsed.raised <=>
                ~(/\ Len(parts) = 2
                  /\ ~PyInt(parts[1]).raised
                  /\ ~PyInt(parts[2]).raised)

\* C17: a spec with '+' parses, to (N, +infinity), iff the spec without its
\* '+' is a non-negative integer N; '+', '-2+' and 'a+' fail
C17_OpenRangeNeedsNonNegative ==
    (/\ fn = "parse_criteria_value" /\ pc # "call"
     /\ Contains(criteria_str, "+")) =>
        LET n == PyInt(Remove(criteria_str, "+"))
        IN  IF ~n.raised /\ n.value >= 0
            THEN parsed = Returns(<<n.value, Inf>>)
            ELSE parsed.raised

-----------------------------------------------------------------------------
(* What the claims about the authentication layer speak of *)

\* the step is a request served by one of the routes (the clock stands)
Served(routes) == fn' \in routes /\ now' = now

\* the routes behind token_required that are modelled
TokenRequiredRoutes == {"logout", "get_current_user_info"}

\* C18: once a logout has answered 200 for an access token, every later
\* request to a token_required route that presents this token is answered
\* 401
C18_LoggedOutTokenRejected ==
    [][(/\ Served(TokenRequiredRoutes)
        /\ TokenOf(request'.cred) \in logged_out)
           => response'.status = 401]_vars

\* C19: a request to a token_required route without a token, or with a
\* token verify_token maps to no active user, is answered 401 and the
\* route body does not run
C19_NoUserNoHandler ==
    [][(/\ Served(TokenRequiredRoutes)
        /\ \/ TokenOf(request'.cred) = NoToken
           \/ verify_token(users, TokenOf(request'.cred), now).none)
           => (response'.status = 401 /\ ~handler_ran')]_vars

\* GET /me with the unexpired access token of a deactivated user was
\* answered 401 before its body
C19_Witness ==
    /\ fn = "get_current_user_info"
    /\ TokenOf(request.cred).type = "access"
    /\ now < TokenOf(request.cred).exp
    /\ \E i \in 1..Len(users) :
           users[i].id = TokenOf(request.cred).user_id /\ ~users[i].is_active
    /\ response.status = 401
    /\ ~handler_ran

\* C20: a register request whose email, lower-cased, is that of a stored
\* user is answered 400, and it adds no user, changes no stored user and
\* hands out no token; after every register request no two stored users
\* have the same lower-cased email (auth_routes.py and
\* simple_auth_backend.py alike)
C20_DuplicateEmailRejected ==
    [][/\ (/\ Served({"register"})
           /\ \E i \in 1..Len(users) :
                  Lower(users[i].email) = Lower(request'.email)) =>
              /\ response'.status = 400
              /\ "access_token" \notin DOMAIN response'
              /\ users' = users
              /\ issued' = issued
       /\ (/\ Served({"simple_register"})
           /\ \E e \in DOMAIN DEMO_USERS :
                  Lower(e) = Lower(request'.email)) =>
              /\ response'.status = 400
              /\ "access_token" \notin DOMAIN response'
              /\ DEMO_USERS' = DEMO_USERS
              /\ ACTIVE_TOKENS' = ACTIVE_TOKENS
       /\ \A i, j \in 1..Len(users') :
              Lower(users'[i].email) = Lower(users'[j].email) => i = j
       /\ \A e \in DOMAIN DEMO_USERS' :
              /\ DEMO_USERS'[e].email = e
              /\ \A d \in DOMAIN DEMO_USERS' : Lower(d) = Lower(e) => d = e
      ]_vars

\* with two users stored, a register request spelling the email of the
\* first in upper case was answered 400
C20_Witness ==
    /\ fn = "register"
    /\ Len(users) = 2
    /\ users[1].email = <<"a", "@", "b", ".", "i", "o">>
    /\ request.email = <<"A", "@", "B", ".", "i", "o">>
    /\ response = Error(400, "User with this email already exists")

\* what C21 asks of a refresh token: it is a JWT of type 'refresh' that has
\* not run out, of a stored, active user, and the refresh_token of a
\* session that is active and not expired
Renewable(token) ==
    /\ token.type = "refresh"
    /\ now < token.exp
    /\ \E i \in 1..Len(users) :
           users[i].id = token.user_id /\ users[i].is_active
    /\ \E k \in 1..Len(user_sessions) :
           /\ user_sessions[k].refresh_token = token
           /\ user_sessions[k].is_active
           /\ now <= user_sessions[k].expires_at

\* C21: a refresh request that presents a token is answered with a new
\* access token only if the token is a live refresh JWT of a stored,
\* active user and of an active, unexpired session; for every other
\* presented token the answer is 401, no token is given out and no session
\* is modified
C21_RefreshOnlyForLiveSession ==
    [][(Served({"refresh_token"}) /\ request'.cred.token # NoToken) =>
           /\ response'.status = 200 => Renewable(request'.cred.token)
           /\ ~Renewable(request'.cred.token) =>
                  /\ response'.status = 401
                  /\ user_sessions' = user_sessions
                  /\ issued' = issued]_vars

\* a refresh a second or more after the login was answered with a new
\* access token, which the session now holds
C21_Witness ==
    /\ fn = "refresh_token"
    /\ response.status = 200
    /\ response.access_token.iat > 0
    /\ \E k \in 1..Len(user_sessions) :
           /\ user_sessions[k].session_token = response.access_token
           /\ user_sessions[k].refresh_token = request.cred.token

\* C22: with the steps of the requests interleaved in any order, each
\* request that has finished has the answer get_inspections gives for its
\* own criteria, window and data when it runs alone
C22_AnswerAsWhenAlone ==
    \A r \in DOMAIN threads :
        threads[r].pc = "done" =>
            threads[r].response =
                get_inspections(TRUE, threads[r].criteria,
                                threads[r].window, threads[r].mock)

\* two requests with different criteria and data have both been answered
\* 200, each having taken steps while the other was under way
C22_Witness ==
    /\ \A r \in DOMAIN threads :
           /\ threads[r].pc = "done"
           /\ threads[r].overlapped
           /\ threads[r].response.status = 200
    /\ threads[1].criteria # threads[2].criteria
    /\ threads[1].mock # threads[2].mock
    /\ threads[1].response # threads[2].response

\* the minutes since midnight a key HH:MM stands for
MinutesOf(key) ==
    60 * (10 * DigitVal(key[1]) + DigitVal(key[2]))
        + 10 * DigitVal(key[4]) + DigitVal(key[5])

\* C23: the returned buckets are in strictly ascending order of the time
\* of day of their keys (so no key occurs twice), and for the empty record
\* list every bucket has count 0, no members and level 'low'
C23_BucketsAscendingAndEmpty ==
    Returned =>
        /\ \A i, j \in 1..Len(Buckets) :
               i < j => MinutesOf(Buckets[i].time) < MinutesOf(Buckets[j].time)
        /\ inspections = <<>> =>
               \A i \in 1..Len(Buckets) :
                   /\ Buckets[i].count = 0
                   /\ Buckets[i].properties = <<>>
                   /\ Buckets[i].competition = "low"

\* the empty list and the window 09:00 to 11:30 gave five buckets
C23_Witness ==
    /\ Returned
    /\ inspections = <<>>
    /\ Len(Buckets) = 5
    /\ Buckets[2].time = T0930

\* C24: in every returned bucket count is the length of properties, the
\* properties are the input records whose floor-rounded start time is the
\* bucket's key, in input order, and no record is in two buckets
C24_MembersAreTheCounted ==
    Returned =>
        /\ \A k \in 1..Len(Buckets) :
               /\ Buckets[k].count = Len(Buckets[k].properties)
               /\ Buckets[k].properties =
                      SelectSeq(inspections,
                                LAMBDA r : FloorKey(r) = Buckets[k].time)
        /\ \A k, l \in 1..Len(Buckets) :
               k # l =>
                   \A a \in 1..Len(Buckets[k].properties) :
                       \A b \in 1..Len(Buckets[l].properties) :
                           Buckets[k].properties[a] # Buckets[l].properties[b]

\* the records of 09:29, 09:30 and 09:05, in this order, went to the
\* buckets 09:00 (two members, in input order) and 09:30
C24_Witness ==
    /\ Returned
    /\ Len(inspections) = 3
    /\ \E k, l \in 1..Len(Buckets) :
           /\ Buckets[k].time = T0900
           /\ Buckets[k].properties =
                  <<Inspection(<<"0", "9", ":", "2", "9">>, 3, 2, 1),
                    Inspection(T0905, 3, 2, 1)>>
           /\ Buckets[l].time = T0930
           /\ Buckets[l].properties = <<Inspection(T0930, 3, 2, 1)>>

\* the records of a returned list as they were handed in: without the
\* property_details the filter of integrated_api.py adds to its copies
AsHandedIn(kept) ==
    [i \in 1..Len(kept) |->
        [k \in DOMAIN kept[i] \ {"property_details"} |-> kept[i][k]]]

\* C25: two calls of integrated_api's filter_similar_properties with the
\* same record list and the same criteria retain the same records in the
\* same order
C25_SameCallSameList ==
    [][(/\ fn = "integrated_filter_similar_properties"
        /\ pc = "return"
        /\ pc' = "return_again") =>
           AsHandedIn(filtered_inspections'.value) =
               AsHandedIn(filtered_inspections.value)]_vars


\* the place in users of the user a call of authenticate_user was for, 0
\* if the email is not a stored one
CalledFor == ByEmail(users, Lower(request'.email))

LockoutOperation ==
    Served({"authenticate_user", "lock_account", "unlock_account",
            "reset_password"})

\* the step has locked the account of the user at place i
JustLocked(i) ==
    /\ is_account_locked(users'[i], now')
    /\ \/ ~is_account_locked(users[i], now)
       \/ fn' = "lock_account" /\ request'.user_id = users[i].id

\* the step is a login of the user at place i that succeeded
JustLoggedIn(i) ==
    /\ fn' = "authenticate_user"
    /\ ~response'.raised
    /\ i = CalledFor

\* C29: after each completed authenticate_user, lock_account,
\* unlock_account and reset_password, failed_login_attempts of every user
\* is between 0 and 4, and it is 0 for the user whose account the operation
\* has just locked or who has just logged in
C29_AttemptsBelowFive ==
    [][LockoutOperation =>
           \A i \in 1..Len(users) :
               /\ users'[i].failed_login_attempts \in 0..4
               /\ (JustLocked(i) \/ JustLoggedIn(i)) =>
                      users'[i].failed_login_attempts = 0]_vars

\* the fifth wrong password has just locked an account whose counter had
\* reached 4
C29_Witness ==
    /\ fn = "authenticate_user"
    /\ request.password = WrongPassword
    /\ response.raised
    /\ \E i \in 1..Len(users) :
           /\ streak[i] = max_attempts
           /\ users[i].account_locked_until = now + LockSeconds
           /\ users[i].failed_login_attempts = 0


\* the places of the sessions of the user with this id that are active
\* after the step
StillActive(user_id) ==
    {k \in 1..Len(user_sessions') :
        user_sessions'[k].user_id = user_id /\ user_sessions'[k].is_active}

Requester == verify_token(users, TokenOf(request'.cred), now)

RegisteredBy(email) ==
    {r \in 1..Len(threads) :
        /\ threads[r].response.status = 201
        /\ Lower(threads[r].email) = email}

\* C30: when every register request has been answered, whatever the order
\* of their steps, no two users stored in DEMO_USERS have the same id and
\* every email stored by a registration was answered 201 exactly once
C30_DistinctIdsOneRegistration ==
    (\A r \in 1..Len(threads) : threads[r].pc = "done") =>
        /\ \A e1, e2 \in DOMAIN DEMO_USERS :
               e1 # e2 => DEMO_USERS[e1].id # DEMO_USERS[e2].id
        /\ \A e \in (DOMAIN DEMO_USERS) \ (DOMAIN DemoUsers) :
               Cardinality(RegisteredBy(e)) = 1

=============================================================================
